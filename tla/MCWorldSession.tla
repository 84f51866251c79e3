--------------------------- MODULE MCWorldSession ---------------------------
EXTENDS WorldSession, TLC

CONSTANTS a1, a2, c1, c2, s1, s2

\* One account with two characters, or two accounts with one each.
SharedAccount == {<<a1, c1>>, <<a1, c2>>}
TwoAccounts   == {<<a1, c1>>, <<a2, c2>>}
OneAccount    == {<<a1, c1>>}

\* Slots are alike; so are the characters of one account.
SlotSymmetry == Permutations({s1, s2}) \cup Permutations({c1, c2})
=============================================================================
