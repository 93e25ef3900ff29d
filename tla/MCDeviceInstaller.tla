-------------------------- MODULE MCDeviceInstaller --------------------------
(***************************************************************************)
(* The instance of DeviceInstaller for TLC: a Raumfeld device with its ip  *)
(* and a device that is neither.                                           *)
(***************************************************************************)
EXTENDS DeviceInstaller

CONSTANTS d1, d2

MCDevices == {d1, d2}
MCRaumfeld == {d1}
MCAddressed == {d1}
=============================================================================
