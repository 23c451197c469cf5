------------------------------ MODULE MCAccounts ------------------------------
(* Instances of Accounts for TLC: an email address and a wallet           *)
EXTENDS Accounts, TLC

CONSTANTS u1, u2, u3, google, mail, wallet, c1, c2

AllKinds  == (google :> "google") @@ (mail :> "email") @@ (wallet :> "wallet")
AllEmails == (google :> mail) @@ (mail :> mail) @@ (wallet :> None)

MailAndWallet == {mail, wallet}
KindsMW == [i \in MailAndWallet |-> AllKinds[i]]
EmailsMW == [i \in MailAndWallet |-> AllEmails[i]]

ThreeUsers == {u1, u2, u3}
TwoCalls == {c1, c2}

(* Row ids, and requests, are interchangeable. *)
AccountsSymmetry == Permutations(ThreeUsers) \cup Permutations(TwoCalls)
=============================================================================
