---------------------------- MODULE MCCoroChannel ----------------------------
EXTENDS CoroChannel, TLC

CONSTANTS k1, k2, s1, s2, s3

\* Two senders share the rendezvous, the third has the buffered channel.
Two == s1 :> k1 @@ s2 :> k1 @@ s3 :> k2
Sends == s1 :> 2 @@ s2 :> 1 @@ s3 :> 1
Sizes == k1 :> 0 @@ k2 :> 1
Waits == k1 :> 1 @@ k2 :> 2
=============================================================================
