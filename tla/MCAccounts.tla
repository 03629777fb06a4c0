----------------------------- MODULE MCAccounts -----------------------------
(* Accounts on a small instance: names of two and of three characters, the *)
(* longest allowed, some of them made of hex digits; hashes of two digits. *)
EXTENDS Accounts

MCHex    == {"0", "1"}
MCNames  == {<<"x", "0">>, <<"x", "0", "1">>, <<"0", "1">>}
MCHashes == {<<"0", "1">>, <<"1", "1">>}
=============================================================================
