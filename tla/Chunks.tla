------------------------------ MODULE Chunks --------------------------------
(***************************************************************************)
(* The data a stream carries.  The code never looks into application data, *)
(* so what one Read of a connection returns is a chunk named by its origin *)
(* and its number: a chunk that is lost, repeated, swapped, altered or     *)
(* sent back to its owner shows.                                           *)
(***************************************************************************)
EXTENDS Naturals

App(n) == [from |-> "app", no |-> n]     \* n-th Read of the client's application
Svc(n) == [from |-> "svc", no |-> n]     \* n-th Read of the target
Cipher == [from |-> "cipher", no |-> 0]  \* bytes still under a layer of encryption

Chunk == [from : {"app", "svc", "cipher"}, no : Nat]
=============================================================================
