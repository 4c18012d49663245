-------------------------- MODULE MCUsbipTransport --------------------------
EXTENDS UsbipTransport
=============================================================================
