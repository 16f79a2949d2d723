---------------------------- MODULE MCUsbGadget ----------------------------
(***************************************************************************)
(* UsbGadget for TLC: the gadget taken away, a set that is pulled up at    *)
(* once and one that waits for adbd, each together with the diag function  *)
(* of the vendor.                                                          *)
(***************************************************************************)
EXTENDS UsbGadget

GadgetRequests == {{}, {"rndis"}, {"adb", "rndis"}}
GadgetVendor   == <<"diag">>
=============================================================================
