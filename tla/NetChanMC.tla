----------------------------- MODULE NetChanMC -----------------------------
(***************************************************************************)
(* Workloads and bounds of the runs of NetChan.                            *)
(***************************************************************************)
EXTENDS NetChan

Messages(clientNormal, clientFile, serverNormal) ==
  [p \in Peer |-> [s \in Streams |->
     IF p = "client" THEN IF s = NORMAL THEN clientNormal ELSE clientFile
     ELSE IF s = NORMAL THEN serverNormal ELSE 0]]
Seqs(client, server) ==
  [p \in Peer |-> IF p = "client" THEN client ELSE server]

OneWay == Messages(2, 0, 0)
TwoFiles == Messages(0, 2, 0)
OneFile == Messages(1, 1, 0)
OneMessage == Messages(1, 0, 0)
TwoAndFile == Messages(2, 1, 0)

Seq34 == Seqs(3, 4)
Seq42 == Seqs(4, 2)
Seq43 == Seqs(4, 3)
=============================================================================
