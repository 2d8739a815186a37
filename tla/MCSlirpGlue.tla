---------------------------- MODULE MCSlirpGlue ----------------------------
EXTENDS SlirpGlue
\* TCP 1-2:2 with UDP 2; TCP 2 and 2:x with UDP 2-3:4, out of the range
SomeSettings ==
  {<<<<<<<<1, 2>>, <<2>>>>>>, <<<<<<2>>>>>>>>,
   <<<<<<<<2>>>>, <<<<2>>, <<NaN>>>>>>, <<<<<<2, 3>>, <<4>>>>>>>>}
SomeServers == {<<<<6, 3>>, <<4, 1>>>>, <<<<4, 2>>, <<4, 1>>>>}
=============================================================================
