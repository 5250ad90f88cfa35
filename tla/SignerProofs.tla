----------------------------- MODULE SignerProofs -----------------------------
(* Every signature has one wire form, whatever the odd order of the curve. *)
EXTENDS Signer, TLAPS

\* Of s and N-s just one is at most half the order, and LowForm is that one.
LEMMA LowFormUnique ==
  ASSUME NEW s \in Scalars
  PROVE  /\ LowForm(s) \in Scalars
         /\ LowForm(s) \in {s, curveOrder - s}
         /\ LowForm(s) <= halfOrder
         /\ curveOrder - LowForm(s) > halfOrder
BY OrderAssumption DEF LowForm, Scalars, halfOrder

\* Of all that may arrive in place of a signature, Verify accepts only the bytes
\* that Sign returned.
THEOREM OneForm == OneWireForm
<1> SUFFICES ASSUME NEW id \in signers, NEW digest \in Digests, NEW r \in Nonces,
                    NEW s \in Scalars
             PROVE  Verify(id, digest, r, s) <=> s = Sign(id, digest, r).s
  BY DEF OneWireForm
<1> DEFINE raw == Raw[<<id, digest, r>>]
<1>1. raw \in Scalars
  BY OrderAssumption
<1>2. Sign(id, digest, r).s = LowForm(raw)
  BY DEF Sign
<1>3. Verify(id, digest, r, s) <=> s <= halfOrder /\ s \in {raw, curveOrder - raw}
  BY DEF Verify, VerifyASN1
<1> HIDE DEF raw
<1>4. QED
  BY <1>1, <1>2, <1>3, LowFormUnique, OrderAssumption DEF Scalars, halfOrder
==============================================================================
