---------------------------- MODULE MCClientIds -----------------------------
(***************************************************************************)
(* A small instance of ClientIds: names that run into each other.  Hashes  *)
(* have four bits, and the third number two digits.                        *)
(***************************************************************************)
EXTENDS ClientIds

MCValidBytes == {"u", "s", "e", "r", "a", "t", "-", "0", "1", "2", "3"}
MCBytes == MCValidBytes \cup {"@", "/"}

Bit(b) == IF b = 0 THEN "0" ELSE "1"
Bits(i) == <<Bit((i \div 8) % 2), Bit((i \div 4) % 2), Bit((i \div 2) % 2), Bit(i % 2)>>

MCModels == << <<"a">>, <<"a", "-", "a">> >>

\* "a" and "a-a" meet the model names; "a@" is turned into the last; the third goes on as
\* the prefix of "a" and model "a" does, its hash included; "a/" is too long once sanitized.
MCUsers ==
  << <<"a">>, <<"a", "-", "a">>, <<"a", "-", "a", "-">> \o Bits(0), <<"a", "@">>,
     <<"a", "/", "/", "/", "/", "/">>, <<"a", "-", "a", "t", "-", "-">> \o Bits(3) >>

Numbered(seq, x) == CHOOSE i \in DOMAIN seq : seq[i] = x

MCUsernames == {MCUsers[i] : i \in DOMAIN MCUsers}
MCModelNames == {MCModels[i] : i \in DOMAIN MCModels}

\* Hashes of pairs differ; the hash of one name may be that of a pair.
MCDigest ==
  [p \in {<<s>> : s \in MCUsernames \cup MCModelNames} \cup (MCUsernames \X MCModelNames) |->
     IF Len(p) = 2
     THEN Bits(2 * (Numbered(MCUsers, p[1]) - 1) + Numbered(MCModels, p[2]) - 1)
     ELSE IF p[1] \in MCUsernames THEN Bits(Numbered(MCUsers, p[1]) - 1) ELSE Bits(15)]

MCDecimal == << <<"1">>, <<"2">>, <<"1", "0">> >>
=============================================================================
