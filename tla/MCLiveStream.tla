---------------------------- MODULE MCLiveStream ----------------------------
(* LiveStream for TLC: the devices are interchangeable.                    *)
EXTENDS LiveStream, TLC

DeviceSymmetry == Permutations(Devices)
=============================================================================
