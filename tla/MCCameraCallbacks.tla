-------------------------- MODULE MCCameraCallbacks --------------------------
(* CameraCallbacks for TLC: one or two HAL threads.                        *)
EXTENDS CameraCallbacks

CONSTANTS h1, h2
=============================================================================
