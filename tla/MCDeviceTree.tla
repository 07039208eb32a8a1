---------------------------- MODULE MCDeviceTree ----------------------------
(* A core of two devices, the first of which has a device of its own.      *)
EXTENDS DeviceTree

CONSTANTS core, first, second, inner

FourDevices == {core, first, second, inner}
Tree == [d \in FourDevices |-> CASE d = core  -> <<first, second>>
                                 [] d = first -> <<inner>>
                                 [] OTHER     -> <<>>]
=============================================================================
