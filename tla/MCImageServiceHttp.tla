------------------------- MODULE MCImageServiceHttp -------------------------
(* Small instances of ImageServiceHttp: one camera that main configures    *)
(* and one that it does not (the path /3 is there all the same).           *)
EXTENDS ImageServiceHttp

AllRequests ==
  {ImageOf(1), ImageOf(3), TimeRequest, AtOnce,
   ResetOf(1, "number"), ResetOf(1, "text"), ResetOf(3, "number")}
=============================================================================
