------------------------------ MODULE MCPublish -----------------------------
(***************************************************************************)
(* Two sections; "a1" and "a2" state one value in two revisions, "b"       *)
(* another one and still shows the value it superseded.  One register      *)
(* drops the second section.                                               *)
(***************************************************************************)
EXTENDS Publish, TLC

CONSTANTS s1, s2, a1, a2, b, va, vb

MCValueOf == a1 :> va @@ a2 :> va @@ b :> vb
MCShown == a1 :> {va} @@ a2 :> {va} @@ b :> {va, vb}

MCRegister == {(s1 :> a1 @@ s2 :> b), (s1 :> b @@ s2 :> b),
               (s1 :> a2 @@ s2 :> None)}
=============================================================================
