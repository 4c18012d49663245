-------------------------- MODULE MCDeviceManager --------------------------
(* DeviceManager with a receiver of two slots.                             *)
EXTENDS DeviceManager
=============================================================================
