-------------------------------- MODULE Signer --------------------------------
(***************************************************************************)
(* Signing and verifying (crypto/ecdsa.go).  ECDSA accepts (r, s) as well  *)
(* as (r, N-s); the signer makes one wire form of the two, as a block's id *)
(* covers the signatures under it byte for byte.  ECDSA itself is          *)
(* external: Raw gives the s of a signature, and what verifies is the one  *)
(* pair {s, N-s}.                                                          *)
(***************************************************************************)
EXTENDS Integers

CONSTANTS
  curveOrder,  \* N
  signers,     \* the replicas with a public key
  Digests,
  Nonces,      \* what r stands for
  Raw          \* Raw[<<id, digest, r>>]: the s that SignASN1 returns

Scalars == 1 .. curveOrder - 1

\* The order of P-256 is an odd prime.
ASSUME OrderAssumption ==
  /\ curveOrder \in Nat /\ curveOrder % 2 = 1 /\ curveOrder > 1
  /\ Raw \in [signers \X Digests \X Nonces -> Scalars]

halfOrder == curveOrder \div 2

\* sig.S of the signature that Sign returns.
LowForm(s) == IF s <= halfOrder THEN s ELSE curveOrder - s

Sign(id, digest, r) ==
  [id |-> id, digest |-> digest, r |-> r, s |-> LowForm(Raw[<<id, digest, r>>])]

\* ecdsa.VerifyASN1.
VerifyASN1(id, digest, r, s) == s \in {Raw[<<id, digest, r>>], curveOrder - Raw[<<id, digest, r>>]}

Verify(id, digest, r, s) ==
  /\ id \in signers
  /\ s <= halfOrder
  /\ VerifyASN1(id, digest, r, s)

------------------------------------------------------------------------------
\* A signature has one wire form: of all that may arrive in its place, Verify
\* accepts just what is, byte for byte, what Sign returned.
OneWireForm ==
  \A id \in signers, digest \in Digests, r \in Nonces, s \in Scalars :
    Verify(id, digest, r, s) <=> s = Sign(id, digest, r).s
==============================================================================
