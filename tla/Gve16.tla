------------------------------- MODULE Gve16 --------------------------------
(***************************************************************************)
(* The token of a GVE-16 code (cryptographic-code-generator): the serial   *)
(* of a code in its namespace, encrypted by an unbalanced Feistel network  *)
(* of ten rounds over its decimal digits, three on the left and four on    *)
(* the right, so that tokens do not show how many codes there are.         *)
(*                                                                         *)
(* The HMAC that gives a round its value is any function of the version of *)
(* the key, which changes when the key is rotated, and of the round.  The  *)
(* Luhn digit and the keyed tag, which only verification reads, are left   *)
(* out.                                                                    *)
(***************************************************************************)
EXTENDS Integers

CONSTANTS
    LeftSize,              \* values of the left half: 1,000
    RightSize,             \* values of the right half: 10,000
    MaxNamespace,          \* the last namespace of gve_namespace_sequence: 9,999
    Versions,              \* versions of the key: GVE_CODE_KEY_VERSION and the key ring
    RoundValue(_, _, _, _) \* the digest for a version, a namespace, a round and the right half

ASSUME Gve16Assumption ==
    /\ {LeftSize, RightSize} \subseteq Nat \ {0} /\ MaxNamespace \in Nat
    /\ \A version \in Versions, namespace \in 1..MaxNamespace, round \in 0..9,
          right \in 0..LeftSize + RightSize :
             RoundValue(version, namespace, round, right) \in Nat

\* The largest serial, 9,999,999.
Capacity == LeftSize * RightSize - 1

\* The halves change places, and so sizes, in every round.
Size(round) == IF round % 2 = 0 THEN LeftSize ELSE RightSize

Split(digits) == [left |-> digits \div RightSize, right |-> digits % RightSize]

\* Mutant of Join: the digits of the left half begin one place too low.
JoinTooLow(halves) == halves.left * LeftSize + halves.right

Join(halves) == halves.left * RightSize + halves.right

RoundShift(version, namespace, round, right) ==
    RoundValue(version, namespace, round, right) % Size(round)

EncryptRound(version, namespace, round, h) ==
    [left |-> h.right,
     right |-> (h.left + RoundShift(version, namespace, round, h.right)) % Size(round)]

\* Mutant of DecryptRound: the value is added again.
AddAgain(version, namespace, round, h) ==
    [left |-> (h.right + RoundShift(version, namespace, round, h.left)) % Size(round),
     right |-> h.left]

DecryptRound(version, namespace, round, h) ==
    [left |-> ((h.right - RoundShift(version, namespace, round, h.left)) + Size(round)) % Size(round),
     right |-> h.left]

EncryptToken(version, namespace, serial) ==
    LET h1 == EncryptRound(version, namespace, 0, Split(serial))
        h2 == EncryptRound(version, namespace, 1, h1)
        h3 == EncryptRound(version, namespace, 2, h2)
        h4 == EncryptRound(version, namespace, 3, h3)
        h5 == EncryptRound(version, namespace, 4, h4)
        h6 == EncryptRound(version, namespace, 5, h5)
        h7 == EncryptRound(version, namespace, 6, h6)
        h8 == EncryptRound(version, namespace, 7, h7)
        h9 == EncryptRound(version, namespace, 8, h8)
    IN Join(EncryptRound(version, namespace, 9, h9))

DecryptToken(version, namespace, token) ==
    LET h9 == DecryptRound(version, namespace, 9, Split(token))
        h8 == DecryptRound(version, namespace, 8, h9)
        h7 == DecryptRound(version, namespace, 7, h8)
        h6 == DecryptRound(version, namespace, 6, h7)
        h5 == DecryptRound(version, namespace, 5, h6)
        h4 == DecryptRound(version, namespace, 4, h5)
        h3 == DecryptRound(version, namespace, 3, h4)
        h2 == DecryptRound(version, namespace, 2, h3)
        h1 == DecryptRound(version, namespace, 1, h2)
    IN Join(DecryptRound(version, namespace, 0, h1))

=============================================================================
