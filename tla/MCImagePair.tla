---------------------------- MODULE MCImagePair ------------------------------
(***************************************************************************)
(* ImagePair for TLC, with the values of the deployment.  The sides are    *)
(* those around every limit, and 4 and 12, which an eighth (8192 to 1024)  *)
(* scales to a half and to one and a half.                                 *)
(***************************************************************************)
EXTENDS ImagePair

MCSide == {1, 4, 12, 63, 64, 65, 1023, 1024, 1025, 4882, 4883, 8192, 8193}
=============================================================================
