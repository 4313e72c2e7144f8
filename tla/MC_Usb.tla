------------------------------- MODULE MC_Usb -------------------------------
(***************************************************************************)
(* One root port, two plugs in it one after the other.                     *)
(***************************************************************************)
EXTENDS UsbHotplug
=============================================================================
