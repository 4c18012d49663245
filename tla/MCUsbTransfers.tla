--------------------------- MODULE MCUsbTransfers ---------------------------
EXTENDS UsbTransfers
=============================================================================
