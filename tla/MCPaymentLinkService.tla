------------------------ MODULE MCPaymentLinkService ------------------------
(* Instances of PaymentLinkService for TLC.                                *)
EXTENDS PaymentLinkService, TLC

\* Every user passes assertRecipient, as for a link without a target handle.
MCAddressees == [c \in Codes |-> Users]

ServiceSymmetry == Permutations(Handlers) \cup Permutations(Codes)
                   \cup Permutations(Users)
=============================================================================
