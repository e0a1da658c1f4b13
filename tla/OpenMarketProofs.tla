-------------------------- MODULE OpenMarketProofs --------------------------
(***************************************************************************)
(* Decryption undoes encryption with the same key, for halves of any size  *)
(* and any round function: what TLC checks of a few serials                *)
(* (TokensReadBack) holds of all ten million.  Then serials, for any       *)
(* vendors, products, batches and numbers of concurrent requests: types    *)
(* first, then the invariant that keeps serials apart.  Trades, at the     *)
(* end, is about products and claims: what may become active was reviewed  *)
(* or inserted for a batch, and a confirmation that is going to commit is  *)
(* alone with its claim, batch and product.                                *)
(***************************************************************************)
EXTENDS OpenMarket, TLAPS

\* A number below the modulus is its own remainder.
LEMMA RemainderBelow ==
    ASSUME NEW n \in Nat \ {0}, NEW x \in 0..n - 1
    PROVE  x % n = x
  OBVIOUS

\* One modulus is taken away from a number between one and two of them.
LEMMA RemainderAbove ==
    ASSUME NEW n \in Nat \ {0}, NEW x \in n..2 * n - 1
    PROVE  x % n = x - n
  OBVIOUS

\* Adding a shift and taking it away again, both around the circle of n.
LEMMA ShiftBack ==
    ASSUME NEW n \in Nat \ {0}, NEW x \in 0..n - 1, NEW s \in 0..n - 1
    PROVE  /\ (x + s) % n \in 0..n - 1
           /\ ((((x + s) % n) - s) + n) % n = x
<1>1. CASE x + s < n
  <2>1. x + s \in 0..n - 1
    BY <1>1
  <2>2. (x + s) % n = x + s
    BY <2>1, RemainderBelow
  <2>3. x + n \in n..2 * n - 1 /\ ((x + s) - s) + n = x + n /\ (x + n) - n = x
    OBVIOUS
  <2>4. (x + n) % n = x
    BY <2>3, RemainderAbove
  <2> QED  BY <2>1, <2>2, <2>3, <2>4
<1>2. CASE x + s >= n
  <2>1. x + s \in n..2 * n - 1 /\ (x + s) - n \in 0..n - 1
    BY <1>2
  <2>2. (x + s) % n = (x + s) - n
    BY <2>1, RemainderAbove
  <2>3. (((x + s) - n) - s) + n = x
    OBVIOUS
  <2>4. x % n = x
    BY RemainderBelow
  <2> QED  BY <2>1, <2>2, <2>3, <2>4
<1> QED  BY <1>1, <1>2

-----------------------------------------------------------------------------
\* The halves before the given round: its own size on the left.
HalvesAt(round) == [left: 0..Size(round) - 1, right: 0..Size(round + 1) - 1]

LEMMA SizeType ==
    ASSUME NEW round \in Nat
    PROVE  /\ Size(round) \in Nat \ {0}
           /\ Size(round + 2) = Size(round)
           /\ Size(round) <= LeftSize + RightSize
<1>1. (round + 2) % 2 = round % 2
  OBVIOUS
<1> QED  BY <1>1, Gve16Assumption DEF Size

\* What a round adds is smaller than the half it is added to.
LEMMA ShiftType ==
    ASSUME NEW version \in Versions, NEW namespace \in 1..MaxNamespace, NEW round \in 0..9,
           NEW right \in 0..Size(round + 1) - 1
    PROVE  RoundShift(version, namespace, round, right) \in 0..Size(round) - 1
<1>1. Size(round) \in Nat \ {0} /\ Size(round + 1) \in Nat /\ Size(round + 1) <= LeftSize + RightSize
  BY SizeType
<1>2. right \in 0..LeftSize + RightSize
  BY <1>1, Gve16Assumption
<1>3. RoundValue(version, namespace, round, right) \in Nat
  BY <1>2, Gve16Assumption
<1> QED  BY <1>1, <1>3 DEF RoundShift

\* A round of decryption undoes the round of encryption of its number, and the halves
\* change their sizes with their places.
LEMMA RoundUndone ==
    ASSUME NEW version \in Versions, NEW namespace \in 1..MaxNamespace,
           NEW round \in 0..9, NEW h \in HalvesAt(round)
    PROVE  /\ EncryptRound(version, namespace, round, h) \in HalvesAt(round + 1)
           /\ DecryptRound(version, namespace, round, EncryptRound(version, namespace, round, h)) = h
<1> DEFINE n == Size(round)
           x == h.left
           s == RoundShift(version, namespace, round, h.right)
<1>1. /\ n \in Nat \ {0} /\ Size(round + 2) = n
      /\ x \in 0..n - 1 /\ h.right \in 0..Size(round + 1) - 1
  BY SizeType DEF HalvesAt
<1>2. s \in 0..n - 1
  BY <1>1, ShiftType
<1>3. (x + s) % n \in 0..n - 1 /\ ((((x + s) % n) - s) + n) % n = x
  BY <1>1, <1>2, ShiftBack
<1>4. EncryptRound(version, namespace, round, h) = [left |-> h.right, right |-> (x + s) % n]
  BY DEF EncryptRound
<1>5. EncryptRound(version, namespace, round, h) \in HalvesAt(round + 1)
  <2>1. (round + 1) + 1 = round + 2
    OBVIOUS
  <2> QED  BY <2>1, <1>1, <1>3, <1>4 DEF HalvesAt
<1>6. DecryptRound(version, namespace, round, EncryptRound(version, namespace, round, h))
        = [left |-> ((((x + s) % n) - s) + n) % n, right |-> h.right]
  BY <1>4 DEF DecryptRound
<1>7. h = [left |-> x, right |-> h.right]
  BY DEF HalvesAt
<1> QED  BY <1>3, <1>5, <1>6, <1>7

\* Quotient and remainder put together again are the number.
LEMMA DivisionJoined ==
    ASSUME NEW d \in Nat, NEW n \in Nat \ {0}
    PROVE  d \div n \in Nat /\ d % n \in 0..n - 1 /\ ((d \div n) * n) + (d % n) = d
  OBVIOUS

\* The quotient of a number below l * n is below l.
LEMMA QuotientBelow ==
    ASSUME NEW l \in Nat \ {0}, NEW n \in Nat \ {0}, NEW d \in 0..l * n - 1
    PROVE  d \div n \in 0..l - 1
  OBVIOUS

\* What the digits of two halves stand for lies below the product of their sizes.
LEMMA JoinedBelow ==
    ASSUME NEW l \in Nat \ {0}, NEW n \in Nat \ {0}, NEW x \in 0..l - 1, NEW y \in 0..n - 1
    PROVE  /\ x * n + y \in 0..l * n - 1
           /\ (x * n + y) \div n = x
           /\ (x * n + y) % n = y
  OBVIOUS

\* Splitting a serial's digits gives two halves, and joining puts the digits together.
LEMMA SplitType ==
    ASSUME NEW digits \in 0..Capacity
    PROVE  Split(digits) \in HalvesAt(0) /\ Join(Split(digits)) = digits
<1>1. LeftSize \in Nat \ {0} /\ RightSize \in Nat \ {0}
  BY Gve16Assumption
<1>2. Size(0) = LeftSize /\ Size(0 + 1) = RightSize
  BY DEF Size
<1>3. LeftSize * RightSize \in Nat
  BY <1>1
<1>4. digits \in 0..LeftSize * RightSize - 1
  BY DEF Capacity
<1>5. digits \in Nat
  BY <1>3, <1>4
<1> QED  BY <1>1, <1>2, <1>4, <1>5, DivisionJoined, QuotientBelow DEF Split, Join, HalvesAt

LEMMA SplitJoined ==
    ASSUME NEW h \in HalvesAt(0)
    PROVE  Join(h) \in 0..Capacity /\ Split(Join(h)) = h
<1>1. LeftSize \in Nat \ {0} /\ RightSize \in Nat \ {0}
  BY Gve16Assumption
<1>2. h.left \in 0..LeftSize - 1 /\ h.right \in 0..RightSize - 1
      /\ h = [left |-> h.left, right |-> h.right]
  BY DEF HalvesAt, Size
<1> QED  BY <1>1, <1>2, JoinedBelow DEF Split, Join, Capacity

-----------------------------------------------------------------------------
\* Under the version of the key it was made with, the token of a serial leads back to the
\* serial, in every namespace and for any round function (encryptToken and decryptToken): no
\* two serials of a namespace have one token under one key.
THEOREM TokenLeadsBack ==
    ASSUME NEW version \in Versions, NEW namespace \in 1..MaxNamespace, NEW serial \in 0..Capacity
    PROVE  /\ EncryptToken(version, namespace, serial) \in 0..Capacity
           /\ DecryptToken(version, namespace, EncryptToken(version, namespace, serial)) = serial
<1> DEFINE e0 == Split(serial)
           e1 == EncryptRound(version, namespace, 0, e0)
           e2 == EncryptRound(version, namespace, 1, e1)
           e3 == EncryptRound(version, namespace, 2, e2)
           e4 == EncryptRound(version, namespace, 3, e3)
           e5 == EncryptRound(version, namespace, 4, e4)
           e6 == EncryptRound(version, namespace, 5, e5)
           e7 == EncryptRound(version, namespace, 6, e6)
           e8 == EncryptRound(version, namespace, 7, e7)
           e9 == EncryptRound(version, namespace, 8, e8)
           e10 == EncryptRound(version, namespace, 9, e9)
<1>e. EncryptToken(version, namespace, serial) = Join(e10)
  BY DEF EncryptToken
<1>0. e0 \in HalvesAt(0) /\ Join(e0) = serial
  BY SplitType
<1>1. e1 \in HalvesAt(1) /\ DecryptRound(version, namespace, 0, e1) = e0
  <2> HIDE DEF e0
  <2>1. e0 \in HalvesAt(0) /\ 0 \in 0..9 /\ 0 + 1 = 1
    BY <1>0
  <2> QED  BY <2>1, RoundUndone
<1>2. e2 \in HalvesAt(2) /\ DecryptRound(version, namespace, 1, e2) = e1
  <2> HIDE DEF e1
  <2>1. e1 \in HalvesAt(1) /\ 1 \in 0..9 /\ 1 + 1 = 2
    BY <1>1
  <2> QED  BY <2>1, RoundUndone
<1>3. e3 \in HalvesAt(3) /\ DecryptRound(version, namespace, 2, e3) = e2
  <2> HIDE DEF e2
  <2>1. e2 \in HalvesAt(2) /\ 2 \in 0..9 /\ 2 + 1 = 3
    BY <1>2
  <2> QED  BY <2>1, RoundUndone
<1>4. e4 \in HalvesAt(4) /\ DecryptRound(version, namespace, 3, e4) = e3
  <2> HIDE DEF e3
  <2>1. e3 \in HalvesAt(3) /\ 3 \in 0..9 /\ 3 + 1 = 4
    BY <1>3
  <2> QED  BY <2>1, RoundUndone
<1>5. e5 \in HalvesAt(5) /\ DecryptRound(version, namespace, 4, e5) = e4
  <2> HIDE DEF e4
  <2>1. e4 \in HalvesAt(4) /\ 4 \in 0..9 /\ 4 + 1 = 5
    BY <1>4
  <2> QED  BY <2>1, RoundUndone
<1>6. e6 \in HalvesAt(6) /\ DecryptRound(version, namespace, 5, e6) = e5
  <2> HIDE DEF e5
  <2>1. e5 \in HalvesAt(5) /\ 5 \in 0..9 /\ 5 + 1 = 6
    BY <1>5
  <2> QED  BY <2>1, RoundUndone
<1>7. e7 \in HalvesAt(7) /\ DecryptRound(version, namespace, 6, e7) = e6
  <2> HIDE DEF e6
  <2>1. e6 \in HalvesAt(6) /\ 6 \in 0..9 /\ 6 + 1 = 7
    BY <1>6
  <2> QED  BY <2>1, RoundUndone
<1>8. e8 \in HalvesAt(8) /\ DecryptRound(version, namespace, 7, e8) = e7
  <2> HIDE DEF e7
  <2>1. e7 \in HalvesAt(7) /\ 7 \in 0..9 /\ 7 + 1 = 8
    BY <1>7
  <2> QED  BY <2>1, RoundUndone
<1>9. e9 \in HalvesAt(9) /\ DecryptRound(version, namespace, 8, e9) = e8
  <2> HIDE DEF e8
  <2>1. e8 \in HalvesAt(8) /\ 8 \in 0..9 /\ 8 + 1 = 9
    BY <1>8
  <2> QED  BY <2>1, RoundUndone
<1>10. e10 \in HalvesAt(10) /\ DecryptRound(version, namespace, 9, e10) = e9
  <2> HIDE DEF e9
  <2>1. e9 \in HalvesAt(9) /\ 9 \in 0..9 /\ 9 + 1 = 10
    BY <1>9
  <2> QED  BY <2>1, RoundUndone
<1>s. Split(Join(e10)) = e10 /\ Join(e10) \in 0..Capacity
  <2> HIDE DEF e10
  <2>1. HalvesAt(10) = HalvesAt(0)
    BY DEF HalvesAt, Size
  <2> QED  BY <1>10, <2>1, SplitJoined
<1> HIDE DEF e0, e1, e2, e3, e4, e5, e6, e7, e8, e9, e10
<1>d. DecryptToken(version, namespace, Join(e10)) = Join(e0)
  BY <1>1, <1>2, <1>3, <1>4, <1>5, <1>6, <1>7, <1>8, <1>9, <1>10, <1>s DEF DecryptToken
<1> QED  BY <1>e, <1>0, <1>s, <1>d

-----------------------------------------------------------------------------
(* Serials.                                                                *)

GenType ==
    /\ products \in [Products -> ProductRow]
    /\ spaces \in [Orgs -> SpaceRow]
    /\ sequence \in 0..MaxNamespace
    /\ DOMAIN batches \subseteq Batches
    /\ \A b \in DOMAIN batches : batches[b] \in BatchRow
    /\ holder \in [Products -> Requests \cup Claimants \cup {None}]
    /\ requests \in [Requests -> RequestRow]
    /\ reviewed \subseteq Products
    /\ origin \in [Products -> Origins \cup {None}]

MarketType ==
    /\ claims \in [Claims -> ClaimRow]
    /\ sent \in [Claims -> 0..MaxSent]
    /\ dealings \in [Claimants -> DealingRow]

\* What a request in flight names, and that what it reserved fits.
RequestHolds(q) ==
    LET r == requests[q] IN
    /\ r.stage # "idle" => r.product \in Products
    /\ Busy(q) => r.key \in Keys /\ r.quantity \in Quantities
    /\ r.stage = "reserved" =>
          /\ r.version \in Versions /\ r.space.ns \in 1..sequence
          /\ r.space.next + r.quantity <= Capacity + 1

\* A claim with a product has a vendor and a batch, and keeps a product.
ClaimHolds(c) ==
    /\ claims[c].vendor # None => claims[c].batch # None
    /\ claims[c].product # None => claims[c].vendor # None

DealingHolds(u) ==
    LET d == dealings[u] IN
    d.stage # "idle" =>
        /\ d.c \in Claims /\ d.claim.vendor \in Vendors
        /\ d.claim.batch \in Batches /\ d.claim.product \in Products
        /\ d.stage # "linking" => claims[d.c].product # None
        /\ d.stage = "bound" => d.claim.batch \in DOMAIN batches

Wellformed ==
    /\ GenType /\ MarketType
    /\ \A q \in Requests : RequestHolds(q)
    /\ \A c \in Claims : ClaimHolds(c)
    /\ \A u \in Claimants : DealingHolds(u)
    /\ \A b \in DOMAIN batches : batches[b].first <= batches[b].last

-----------------------------------------------------------------------------
LEMMA SizesPositive ==
    /\ Capacity \in Nat /\ MaxNamespace \in Nat /\ MaxTries \in Nat /\ MaxSent \in Nat
    /\ Quantities \subseteq Nat \ {0}
<1>1. LeftSize \in Nat \ {0} /\ RightSize \in Nat \ {0}
  BY Gve16Assumption
<1>2. LeftSize * RightSize \in Nat \ {0}
  BY <1>1
<1> QED  BY <1>2, Gve16Assumption, GenerationAssumption, OpenMarketAssumption DEF Capacity

LEMMA Constants ==
    /\ NoProduct \in ProductRow
    /\ \A status \in Statuses, holding \in BOOLEAN : NewProduct(status, holding) \in ProductRow
    /\ NoSpace \in SpaceRow
    /\ Idle \in RequestRow /\ Idle.stage = "idle"
    /\ NoClaim \in ClaimRow /\ NoClaim.product = None /\ NoClaim.vendor = None
    /\ NoDealing \in DealingRow /\ NoDealing.stage = "idle"
<1>1. /\ NoProduct \in ProductRow
      /\ \A status \in Statuses, holding \in BOOLEAN : NewProduct(status, holding) \in ProductRow
  BY DEF NoProduct, NewProduct, ProductRow, Statuses
<1>2. NoSpace \in SpaceRow
  BY SizesPositive DEF NoSpace, SpaceRow
<1>3. Idle \in RequestRow /\ Idle.stage = "idle"
  BY <1>1, <1>2 DEF Idle, RequestRow, Stages
<1>4. NoClaim \in ClaimRow /\ NoClaim.product = None /\ NoClaim.vendor = None
  BY SizesPositive DEF NoClaim, ClaimRow
<1>5. NoDealing \in DealingRow /\ NoDealing.stage = "idle"
  BY <1>1, <1>4 DEF NoDealing, DealingRow
<1> QED  BY <1>1, <1>2, <1>3, <1>4, <1>5

LEMMA InitWellformed == Init => Wellformed
<1> SUFFICES ASSUME Init PROVE Wellformed
  OBVIOUS
<1>0. DOMAIN batches = {}
  BY DEF Init, GenInit
<1>1. GenType
  BY <1>0, Constants, SizesPositive DEF Init, GenInit, GenType, Origins
<1>2. MarketType
  BY Constants, SizesPositive DEF Init, MarketType
<1>3. \A q \in Requests : RequestHolds(q)
  BY Constants DEF Init, GenInit, RequestHolds, Busy
<1>4. \A c \in Claims : ClaimHolds(c)
  BY Constants DEF Init, ClaimHolds
<1>5. \A u \in Claimants : DealingHolds(u)
  BY Constants DEF Init, DealingHolds
<1> QED  BY <1>0, <1>1, <1>2, <1>3, <1>4, <1>5 DEF Wellformed

-----------------------------------------------------------------------------
\* Steps that leave claims and dealings alone, and only add batches.
LEMMA MarketKept ==
    ASSUME Wellformed, UNCHANGED <<claims, sent, dealings>>,
           DOMAIN batches \subseteq DOMAIN batches'
    PROVE  /\ MarketType'
           /\ \A c \in Claims : ClaimHolds(c)'
           /\ \A u \in Claimants : DealingHolds(u)'
  BY DEF Wellformed, MarketType, ClaimHolds, DealingHolds

\* One request changes; what it names afterwards is to be shown.
LEMMA OneRequest ==
    ASSUME Wellformed, NEW q \in Requests, NEW row \in RequestRow,
           requests' = [requests EXCEPT ![q] = row],
           sequence' \in Nat, sequence <= sequence',
           row.stage # "idle" => row.product \in Products,
           row.stage \in {"checked", "locked", "reserved"} =>
               row.key \in Keys /\ row.quantity \in Quantities,
           row.stage = "reserved" =>
               /\ row.version \in Versions /\ row.space.ns \in 1..sequence'
               /\ row.space.next + row.quantity <= Capacity + 1
    PROVE  /\ requests' \in [Requests -> RequestRow]
           /\ \A r \in Requests : RequestHolds(r)'
<1>1. requests \in [Requests -> RequestRow] /\ sequence \in Nat
  BY SizesPositive DEF Wellformed, GenType
<1>2. requests' \in [Requests -> RequestRow]
  BY <1>1
<1>3. ASSUME NEW r \in Requests PROVE RequestHolds(r)'
  <2>1. CASE r = q
    <3>1. requests'[r] = row
      BY <1>1, <2>1
    <3> QED  BY <3>1 DEF RequestHolds, Busy
  <2>2. CASE r # q
    <3>1. requests'[r] = requests[r]
      BY <1>1, <2>2
    <3>2. RequestHolds(r)
      BY DEF Wellformed
    <3>3. requests[r].space.ns \in 1..sequence => requests[r].space.ns \in 1..sequence'
      BY <1>1
    <3> QED  BY <3>1, <3>2, <3>3 DEF RequestHolds, Busy
  <2> QED  BY <2>1, <2>2
<1> QED  BY <1>2, <1>3

LEMMA RequestEnds ==
    ASSUME Wellformed, NEW q \in Requests, requests' = [requests EXCEPT ![q] = Idle],
           sequence' \in Nat, sequence <= sequence'
    PROVE  /\ requests' \in [Requests -> RequestRow]
           /\ \A r \in Requests : RequestHolds(r)'
  BY OneRequest, Constants

\* What an organisation's edit makes of a row.
LEMMA EditsAre ==
    ASSUME NEW row \in ProductRow, NEW new \in VendorEdits(row)
    PROVE  \/ new = [row EXCEPT !.prev = row.status, !.status = "archived"]
           \/ new = [row EXCEPT !.status = Restored(row), !.prev = None]
           \/ \E h \in BOOLEAN : \/ new = [row EXCEPT !.holding = h]
                                 \/ new = [row EXCEPT !.status = "pending", !.holding = h]
<1>1. CASE new \in When(row.status # "archived",
                        [row EXCEPT !.prev = row.status, !.status = "archived"])
  BY <1>1 DEF When
<1>2. CASE new \in When(row.status = "archived",
                        [row EXCEPT !.status = Restored(row), !.prev = None])
  BY <1>2 DEF When
<1>3. ASSUME NEW h \in BOOLEAN,
             new \in When(Editable(row), [row EXCEPT !.holding = h])
                       \cup When(Resubmittable(row), [row EXCEPT !.status = "pending", !.holding = h])
      PROVE  \/ new = [row EXCEPT !.holding = h]
             \/ new = [row EXCEPT !.status = "pending", !.holding = h]
  BY <1>3 DEF When
<1> QED  BY <1>1, <1>2, <1>3 DEF VendorEdits

\* What an edit or a review is going to save is a product row.
LEMMA EditsType ==
    ASSUME NEW row \in ProductRow, NEW new \in VendorEdits(row) \cup Removals(row) \cup Reviews(row)
    PROVE  new \in ProductRow
<1>1. Restored(row) \in Statuses
  BY DEF Restored, Statuses
<1>2. CASE new \in VendorEdits(row)
  <2>1. \/ new = [row EXCEPT !.prev = row.status, !.status = "archived"]
        \/ new = [row EXCEPT !.status = Restored(row), !.prev = None]
        \/ \E h \in BOOLEAN : \/ new = [row EXCEPT !.holding = h]
                              \/ new = [row EXCEPT !.status = "pending", !.holding = h]
    BY <1>2, EditsAre
  <2> QED  BY <1>1, <2>1 DEF ProductRow, Statuses
<1>3. CASE new \in Removals(row)
  BY <1>3, Constants DEF Removals, When
<1>4. CASE new \in Reviews(row)
  BY <1>4 DEF Reviews, ProductRow
<1> QED  BY <1>2, <1>3, <1>4

-----------------------------------------------------------------------------
\* Each step of Generation keeps everything well formed.
LEMMA ProductSteps ==
    ASSUME Wellformed, NEW p \in Products,
           Create(p) \/ Recall(p) \/ \E key \in Keys : RepeatAssigned(p, key),
           UNCHANGED <<claims, sent, dealings>>
    PROVE  Wellformed'
<1>1. products \in [Products -> ProductRow] /\ origin \in [Products -> Origins \cup {None}]
  BY DEF Wellformed, GenType
<1>2. /\ products' \in [Products -> ProductRow] /\ origin' \in [Products -> Origins \cup {None}]
      /\ UNCHANGED <<spaces, sequence, batches, holder, requests, reviewed>>
  <2>1. CASE Recall(p)
    <3>1. [products[p] EXCEPT !.status = "recalled"] \in ProductRow
      BY <1>1 DEF ProductRow, Statuses
    <3> QED  BY <1>1, <2>1, <3>1 DEF Recall
  <2>2. ASSUME NEW row \in ProductRow, NEW by \in Origins, Insert(p, row, by)
        PROVE  /\ products' \in [Products -> ProductRow] /\ origin' \in [Products -> Origins \cup {None}]
               /\ UNCHANGED <<spaces, sequence, batches, holder, requests, reviewed>>
    BY <1>1, <2>2 DEF Insert
  <2>3. CASE Create(p)
    <3>1. PICK holding \in BOOLEAN : Insert(p, NewProduct("pending", holding), "created")
      BY <2>3 DEF Create
    <3>2. NewProduct("pending", holding) \in ProductRow /\ "created" \in Origins
      BY Constants DEF Statuses, Origins
    <3> QED  BY <2>2, <3>1, <3>2
  <2>4. ASSUME NEW key \in Keys, RepeatAssigned(p, key)
        PROVE  /\ products' \in [Products -> ProductRow] /\ origin' \in [Products -> Origins \cup {None}]
               /\ UNCHANGED <<spaces, sequence, batches, holder, requests, reviewed>>
    <3>1. NewProduct("active", TRUE) \in ProductRow /\ "inserted" \in Origins
      BY Constants DEF Statuses, Origins
    <3> QED  BY <2>2, <2>4, <3>1 DEF RepeatAssigned
  <2> QED  BY <2>1, <2>3, <2>4
<1>3. GenType'
  BY <1>2 DEF Wellformed, GenType
<1>4. \A q \in Requests : RequestHolds(q)'
  BY <1>2 DEF Wellformed, RequestHolds, Busy
<1> QED  BY <1>2, <1>3, <1>4, MarketKept DEF Wellformed

LEMMA ReadSteps ==
    ASSUME Wellformed, NEW q \in Requests, NEW p \in Products,
           VendorReads(q, p) \/ ReviewerReads(q, p), UNCHANGED <<claims, sent, dealings>>
    PROVE  Wellformed'
<1>1. PICK new \in VendorEdits(products[p]) \cup Removals(products[p]) \cup Reviews(products[p]),
           approves \in BOOLEAN : Open(q, p, new, approves)
  <2>1. CASE VendorReads(q, p)
    BY <2>1 DEF VendorReads
  <2>2. CASE ReviewerReads(q, p)
    <3>1. PICK new \in Reviews(products[p]) : Open(q, p, new, new.status = "active")
      BY <2>2 DEF ReviewerReads
    <3>2. PICK b \in BOOLEAN : b = (new.status = "active")
      OBVIOUS
    <3> QED  BY <3>1, <3>2
  <2> QED  BY <2>1, <2>2
<1>2. new \in ProductRow
  BY EditsType DEF Wellformed, GenType
<1> DEFINE row == [Idle EXCEPT !.stage = "read", !.product = p, !.row = new,
                              !.approves = approves]
<1>3. row \in RequestRow /\ row.stage = "read" /\ row.product = p
  BY <1>2, Constants DEF RequestRow, Stages
<1>4. requests' = [requests EXCEPT ![q] = row]
      /\ UNCHANGED <<products, spaces, sequence, batches, holder, reviewed, origin>>
  BY <1>1 DEF Open
<1>5. sequence' \in Nat /\ sequence <= sequence'
  BY <1>4, SizesPositive DEF Wellformed, GenType
<1> HIDE DEF row
<1>6. requests' \in [Requests -> RequestRow] /\ \A r \in Requests : RequestHolds(r)'
  BY <1>3, <1>4, <1>5, OneRequest
<1>7. GenType'
  BY <1>4, <1>6 DEF Wellformed, GenType
<1> QED  BY <1>4, <1>6, <1>7, MarketKept DEF Wellformed

LEMMA SaveStep ==
    ASSUME Wellformed, NEW q \in Requests, Save(q), UNCHANGED <<claims, sent, dealings>>
    PROVE  Wellformed'
<1>1. requests[q].row \in ProductRow /\ requests[q].product \in Products
  BY DEF Save, Wellformed, GenType, RequestHolds, RequestRow
<1>2. products' \in [Products -> ProductRow] /\ reviewed' \subseteq Products
  BY <1>1 DEF Save, Wellformed, GenType
<1>3. requests' = [requests EXCEPT ![q] = Idle]
      /\ UNCHANGED <<spaces, sequence, batches, holder, origin>>
  BY DEF Save
<1>4. sequence' \in Nat /\ sequence <= sequence'
  BY <1>3, SizesPositive DEF Wellformed, GenType
<1>5. requests' \in [Requests -> RequestRow] /\ \A r \in Requests : RequestHolds(r)'
  BY <1>3, <1>4, RequestEnds
<1>6. GenType'
  BY <1>2, <1>3, <1>5 DEF Wellformed, GenType
<1> QED  BY <1>3, <1>5, <1>6, MarketKept DEF Wellformed

LEMMA StartStep ==
    ASSUME Wellformed, NEW q \in Requests, NEW p \in Products, NEW key \in Keys,
           NEW quantity \in Quantities,
           GenerateOwn(q, p, key, quantity) \/ GenerateAssigned(q, p, key, quantity)
              \/ GenerateOpen(q, p, key, quantity),
           UNCHANGED <<claims, sent, dealings>>
    PROVE  Wellformed'
<1>1. PICK open \in BOOLEAN, assigned \in BOOLEAN, fresh \in BOOLEAN :
         Start(q, p, key, quantity, open, assigned, fresh)
  BY DEF GenerateOwn, GenerateAssigned, GenerateOpen
<1> DEFINE row == [Idle EXCEPT !.stage = "checked", !.open = open, !.assigned = assigned,
                              !.fresh = fresh, !.product = p, !.key = key,
                              !.quantity = quantity]
<1>2. row \in RequestRow /\ row.stage = "checked" /\ row.product = p /\ row.key = key
      /\ row.quantity = quantity
  BY Constants DEF RequestRow, Stages
<1>3. requests' = [requests EXCEPT ![q] = row]
      /\ UNCHANGED <<products, spaces, sequence, batches, reviewed, origin>>
      /\ holder' \in [Products -> Requests \cup Claimants \cup {None}]
  BY <1>1 DEF Start, Wellformed, GenType
<1>4. sequence' \in Nat /\ sequence <= sequence'
  BY <1>3, SizesPositive DEF Wellformed, GenType
<1> HIDE DEF row
<1>5. requests' \in [Requests -> RequestRow] /\ \A r \in Requests : RequestHolds(r)'
  BY <1>2, <1>3, <1>4, OneRequest
<1>6. GenType'
  BY <1>3, <1>5 DEF Wellformed, GenType
<1> QED  BY <1>3, <1>5, <1>6, MarketKept DEF Wellformed

LEMMA LockStep ==
    ASSUME Wellformed, NEW q \in Requests, LockProduct(q), UNCHANGED <<claims, sent, dealings>>
    PROVE  Wellformed'
<1> DEFINE p == requests[q].product
           held == IF requests[q].fresh THEN NewProduct("active", TRUE) ELSE products[p]
<1>1. /\ p \in Products /\ requests[q] \in RequestRow /\ requests[q].stage = "checked"
      /\ requests[q].key \in Keys /\ requests[q].quantity \in Quantities
  BY DEF LockProduct, Wellformed, GenType, RequestHolds, Busy
<1>2. held \in ProductRow
  BY <1>1, Constants DEF Statuses, Wellformed, GenType
<1>3. UNCHANGED <<products, spaces, sequence, batches, reviewed, origin>>
  BY DEF LockProduct
<1>4. sequence' \in Nat /\ sequence <= sequence'
  BY <1>3, SizesPositive DEF Wellformed, GenType
<1>5. holder' \in [Products -> Requests \cup Claimants \cup {None}]
  BY DEF LockProduct, Wellformed, GenType
<1>6. requests' \in [Requests -> RequestRow] /\ \A r \in Requests : RequestHolds(r)'
  <2>1. CASE requests' = [requests EXCEPT ![q] = Idle]
    BY <2>1, <1>4, RequestEnds
  <2>2. CASE requests' = [requests EXCEPT ![q].stage = "locked", ![q].row = held]
    <3> DEFINE row == [requests[q] EXCEPT !.stage = "locked", !.row = held]
    <3>1. row \in RequestRow /\ row.stage = "locked" /\ row.product = p
          /\ row.key = requests[q].key /\ row.quantity = requests[q].quantity
      BY <1>1, <1>2 DEF RequestRow, Stages
    <3>2. requests' = [requests EXCEPT ![q] = row]
      BY <2>2 DEF Wellformed, GenType
    <3> HIDE DEF row
    <3> QED  BY <1>1, <1>4, <3>1, <3>2, OneRequest
  <2> QED  BY <2>1, <2>2 DEF LockProduct
<1>7. GenType'
  BY <1>3, <1>5, <1>6 DEF Wellformed, GenType
<1> QED  BY <1>3, <1>6, <1>7, MarketKept DEF Wellformed

\* What a request reserves: the namespace its organisation has, or the next one.
SpaceTaken(q) ==
    IF spaces[OrgOf(q)].ns = 0 THEN [ns |-> sequence + 1, next |-> 1] ELSE spaces[OrgOf(q)]

LEMMA ReserveTakes ==
    ASSUME Wellformed, NEW q \in Requests, Reserve(q), \A o \in Orgs : spaces[o].ns <= sequence,
           \A o \in Orgs : spaces[o].ns = 0 => spaces[o].next = 1
    PROVE  /\ UNCHANGED <<products, spaces, batches, reviewed, origin>>
           /\ sequence' \in Nat /\ sequence' \in 0..MaxNamespace /\ sequence <= sequence'
           /\ \/ requests' = [requests EXCEPT ![q] = Idle]
              \/ /\ \E version \in Versions : requests' = [requests EXCEPT ![q] =
                        [requests[q] EXCEPT !.stage = "reserved", !.version = version,
                                            !.space = SpaceTaken(q)]]
                 /\ SpaceFree(q) /\ OrgOf(q) \in Orgs
                 /\ SpaceTaken(q) \in SpaceRow /\ SpaceTaken(q).ns \in 1..sequence'
                 /\ SpaceTaken(q).next + requests[q].quantity <= Capacity + 1
<1> DEFINE r == requests[q]  org == OrgOf(q)  first == spaces[org].ns = 0
<1>1. /\ r \in RequestRow /\ r.product \in Products /\ r.quantity \in Nat \ {0}
      /\ org \in Orgs /\ spaces[org] \in SpaceRow /\ sequence \in 0..MaxNamespace
  BY SizesPositive, GenerationAssumption
     DEF Reserve, Wellformed, GenType, RequestHolds, Busy, OrgOf
<1>2. UNCHANGED <<products, spaces, batches, reviewed, origin>>
  BY DEF Reserve
<1>3. sequence' \in Nat /\ sequence' \in 0..MaxNamespace /\ sequence <= sequence'
  <2>1. \/ sequence' = sequence
        \/ sequence' = sequence + 1 /\ sequence < MaxNamespace
    BY DEF Reserve
  <2> QED  BY <1>1, <2>1, SizesPositive
<1>4. CASE /\ Prior(org, r.key, r.open) = {}
           /\ first => sequence < MaxNamespace
           /\ LastSerial(q) <= Capacity
  <2>1. PICK version \in Versions :
           requests' = [requests EXCEPT ![q].stage = "reserved", ![q].version = version,
                                        ![q].space = IF first THEN [ns |-> sequence + 1, next |-> 1]
                                                     ELSE spaces[org]]
    BY <1>4 DEF Reserve
  <2>2. requests' = [requests EXCEPT ![q] =
                        [requests[q] EXCEPT !.stage = "reserved", !.version = version,
                                            !.space = SpaceTaken(q)]]
    BY <2>1 DEF Wellformed, GenType, SpaceTaken
  <2>3. spaces[org].next + r.quantity <= Capacity + 1
    BY <1>1, <1>4, SizesPositive DEF LastSerial, SpaceRow
  <2>4. CASE first
    <3>1. sequence' = sequence + 1
      BY <1>4, <2>4 DEF Reserve
    <3>2. SpaceTaken(q) = [ns |-> sequence + 1, next |-> 1]
      BY <2>4 DEF SpaceTaken
    <3>3. SpaceTaken(q) \in SpaceRow /\ SpaceTaken(q).ns \in 1..sequence'
      BY <1>1, <1>4, <2>4, <3>1, <3>2, SizesPositive DEF SpaceRow
    <3>4. SpaceTaken(q).next + r.quantity <= Capacity + 1
      BY <1>1, <2>3, <2>4, <3>2
    <3> QED  BY <1>1, <1>2, <1>3, <2>2, <3>3, <3>4 DEF Reserve
  <2>5. CASE ~first
    <3>1. SpaceTaken(q) = spaces[org]
      BY <2>5 DEF SpaceTaken
    <3>2. SpaceTaken(q).ns \in 1..sequence'
      BY <1>1, <1>3, <2>5, <3>1, SizesPositive DEF SpaceRow
    <3> QED  BY <1>1, <1>2, <1>3, <2>2, <2>3, <3>1, <3>2 DEF Reserve
  <2> QED  BY <2>4, <2>5
<1>5. CASE ~(/\ Prior(org, r.key, r.open) = {}
             /\ first => sequence < MaxNamespace
             /\ LastSerial(q) <= Capacity)
  BY <1>2, <1>3, <1>5 DEF Reserve
<1> QED  BY <1>4, <1>5

\* The namespaces in use are from the sequence, and a row without one is as it was made.
SpacesKnown ==
    \A o \in Orgs : spaces[o].ns <= sequence /\ (spaces[o].ns = 0 => spaces[o].next = 1)

LEMMA ReserveStep ==
    ASSUME Wellformed, SpacesKnown, NEW q \in Requests, Reserve(q),
           UNCHANGED <<claims, sent, dealings>>
    PROVE  Wellformed'
<1>1. /\ UNCHANGED <<products, spaces, batches, reviewed, origin>>
      /\ sequence' \in Nat /\ sequence' \in 0..MaxNamespace /\ sequence <= sequence'
  BY ReserveTakes DEF SpacesKnown
<1>2. requests' \in [Requests -> RequestRow] /\ \A r \in Requests : RequestHolds(r)'
  <2>1. CASE requests' = [requests EXCEPT ![q] = Idle]
    BY <1>1, <2>1, RequestEnds
  <2>2. CASE requests' # [requests EXCEPT ![q] = Idle]
    <3>0. PICK version \in Versions : requests' = [requests EXCEPT ![q] =
             [requests[q] EXCEPT !.stage = "reserved", !.version = version,
                                 !.space = SpaceTaken(q)]]
      BY <2>2, ReserveTakes DEF SpacesKnown
    <3> DEFINE row == [requests[q] EXCEPT !.stage = "reserved", !.version = version,
                                          !.space = SpaceTaken(q)]
    <3>1. requests' = [requests EXCEPT ![q] = row]
          /\ SpaceTaken(q) \in SpaceRow /\ SpaceTaken(q).ns \in 1..sequence'
          /\ SpaceTaken(q).next + requests[q].quantity <= Capacity + 1
      BY <2>2, <3>0, ReserveTakes DEF SpacesKnown
    <3>2. /\ requests[q].product \in Products /\ requests[q] \in RequestRow
          /\ requests[q].key \in Keys /\ requests[q].quantity \in Quantities
      BY DEF Reserve, Wellformed, GenType, RequestHolds, Busy
    <3>3. row \in RequestRow /\ row.stage = "reserved" /\ row.product = requests[q].product
          /\ row.key = requests[q].key /\ row.quantity = requests[q].quantity
          /\ row.space = SpaceTaken(q) /\ row.version \in Versions
      BY <3>1, <3>2 DEF RequestRow, Stages
    <3> HIDE DEF row
    <3> QED  BY <1>1, <3>1, <3>2, <3>3, OneRequest
  <2> QED  BY <2>1, <2>2
<1>3. holder' \in [Products -> Requests \cup Claimants \cup {None}]
  BY DEF Reserve, Wellformed, GenType
<1>4. GenType'
  BY <1>1, <1>2, <1>3 DEF Wellformed, GenType
<1> QED  BY <1>1, <1>2, <1>4, MarketKept DEF Wellformed

\* The batch that a commit adds.
LEMMA CommitAdds ==
    ASSUME Wellformed, NEW q \in Requests, Commit(q)
    PROVE  /\ NewBatch(q) \in BatchRow /\ NewBatch(q).first <= NewBatch(q).last
           /\ NewBatch(q).ns = requests[q].space.ns
           /\ NewBatch(q).first = requests[q].space.next
           /\ NewBatch(q).last = (requests[q].space.next + requests[q].quantity) - 1
           /\ OrgOf(q) \in Orgs
           /\ \E b \in Batches \ DOMAIN batches :
                 /\ DOMAIN batches' = DOMAIN batches \cup {b}
                 /\ batches'[b] = NewBatch(q)
                 /\ \A a \in DOMAIN batches : batches'[a] = batches[a]
<1> DEFINE r == requests[q]
<1>1. /\ r \in RequestRow /\ r.product \in Products /\ r.key \in Keys
      /\ r.quantity \in Nat \ {0} /\ r.space.ns \in 1..sequence /\ sequence \in 0..MaxNamespace
      /\ r.version \in Versions
      /\ r.space.next + r.quantity <= Capacity + 1
  BY SizesPositive DEF Commit, Wellformed, GenType, RequestHolds, Busy
<1>2. r.space.next \in 1..Capacity + 1 /\ r.open \in BOOLEAN
  BY <1>1 DEF RequestRow, SpaceRow
<1>3. OrgOf(q) \in Orgs
  BY <1>1, GenerationAssumption DEF OrgOf
<1>4. r.space.next \in 1..Capacity /\ (r.space.next + r.quantity) - 1 \in 1..Capacity
      /\ r.space.next <= (r.space.next + r.quantity) - 1 /\ r.space.ns \in 1..MaxNamespace
  BY <1>1, <1>2, SizesPositive
<1>5. PICK b \in Batches \ DOMAIN batches :
         batches' = [x \in DOMAIN batches \cup {b} |-> IF x = b THEN NewBatch(q) ELSE batches[x]]
  BY DEF Commit
<1>6. NewBatch(q) \in BatchRow
  BY <1>1, <1>2, <1>3, <1>4 DEF NewBatch, BatchRow
<1> QED  BY <1>3, <1>4, <1>5, <1>6 DEF NewBatch

LEMMA CommitStep ==
    ASSUME Wellformed, NEW q \in Requests, Commit(q), UNCHANGED <<claims, sent, dealings>>
    PROVE  Wellformed'
<1> DEFINE r == requests[q]
<1>1. /\ r \in RequestRow /\ r.product \in Products /\ r.quantity \in Nat \ {0}
      /\ r.row \in ProductRow /\ r.space \in SpaceRow
      /\ r.space.next + r.quantity <= Capacity + 1
  BY SizesPositive DEF Commit, Wellformed, GenType, RequestHolds, Busy, RequestRow
<1>2. /\ requests' = [requests EXCEPT ![q] = Idle] /\ UNCHANGED <<sequence, reviewed>>
      /\ holder' \in [Products -> Requests \cup Claimants \cup {None}]
      /\ origin' \in [Products -> Origins \cup {None}]
  BY DEF Commit, Wellformed, GenType, Origins
<1>3. sequence' \in Nat /\ sequence <= sequence'
  BY <1>2, SizesPositive DEF Wellformed, GenType
<1>4. requests' \in [Requests -> RequestRow] /\ \A s \in Requests : RequestHolds(s)'
  BY <1>2, <1>3, RequestEnds
<1>5. spaces' \in [Orgs -> SpaceRow]
  <2>1. [ns |-> r.space.ns, next |-> r.space.next + r.quantity] \in SpaceRow
    BY <1>1, SizesPositive DEF SpaceRow
  <2> QED  BY <2>1 DEF Commit, Wellformed, GenType
<1>6. products' \in [Products -> ProductRow]
  <2>1. [r.row EXCEPT !.total = r.row.total + r.quantity] \in ProductRow
    BY <1>1 DEF ProductRow
  <2> QED  BY <2>1 DEF Commit, Wellformed, GenType
<1>7. /\ DOMAIN batches' \subseteq Batches /\ DOMAIN batches \subseteq DOMAIN batches'
      /\ \A b \in DOMAIN batches' : batches'[b] \in BatchRow /\ batches'[b].first <= batches'[b].last
  BY CommitAdds DEF Wellformed, GenType
<1>8. GenType'
  BY <1>2, <1>4, <1>5, <1>6, <1>7 DEF Wellformed, GenType
<1> QED  BY <1>4, <1>7, <1>8, MarketKept DEF Wellformed

LEMMA FailStep ==
    ASSUME Wellformed, NEW q \in Requests, Fail(q), UNCHANGED <<claims, sent, dealings>>
    PROVE  Wellformed'
<1>1. /\ requests' = [requests EXCEPT ![q] = Idle]
      /\ UNCHANGED <<products, spaces, sequence, batches, reviewed, origin>>
      /\ holder' \in [Products -> Requests \cup Claimants \cup {None}]
  BY DEF Fail, Wellformed, GenType
<1>2. sequence' \in Nat /\ sequence <= sequence'
  BY <1>1, SizesPositive DEF Wellformed, GenType
<1>3. requests' \in [Requests -> RequestRow] /\ \A s \in Requests : RequestHolds(s)'
  BY <1>1, <1>2, RequestEnds
<1>4. GenType'
  BY <1>1, <1>3 DEF Wellformed, GenType
<1> QED  BY <1>1, <1>3, <1>4, MarketKept DEF Wellformed

-----------------------------------------------------------------------------
\* Each step about a claim keeps everything well formed.
LEMMA GenKept ==
    ASSUME Wellformed, UNCHANGED genVars
    PROVE  /\ GenType' /\ \A q \in Requests : RequestHolds(q)'
           /\ \A b \in DOMAIN batches' : batches'[b].first <= batches'[b].last
           /\ batches' = batches
  BY DEF genVars, Wellformed, GenType, RequestHolds, Busy

LEMMA NoneApart ==
    None \notin Vendors /\ None \notin Batches /\ None \notin Products
  BY GenerationAssumption DEF Orgs

LEMMA LookupSteps ==
    ASSUME Wellformed, NEW c \in Claims,
           (\E vendor \in Vendors, b \in Batches : Lookup(c, vendor, b)) \/ Expire(c)
    PROVE  Wellformed'
<1>1. UNCHANGED <<genVars, sent, dealings>>
  BY DEF Lookup, Expire
<1>2. MarketType /\ ClaimHolds(c)
  BY DEF Wellformed
<1>3. PICK claim \in ClaimRow :
         /\ claims' = [claims EXCEPT ![c] = claim]
         /\ claim.vendor # None => claim.batch # None
         /\ claim.product # None => claim.vendor # None
         /\ claims[c].product # None => claim.product # None
  <2>1. CASE Expire(c)
    <3> DEFINE claim == [claims[c] EXCEPT !.live = FALSE]
    <3>1. claim \in ClaimRow /\ claim.vendor = claims[c].vendor /\ claim.batch = claims[c].batch
          /\ claim.product = claims[c].product
      BY <1>2 DEF MarketType, ClaimRow
    <3>2. claims' = [claims EXCEPT ![c] = claim]
      BY <2>1 DEF Expire
    <3> QED  BY <1>2, <3>1, <3>2 DEF ClaimHolds
  <2>2. ASSUME NEW vendor \in Vendors, NEW b \in Batches, Lookup(c, vendor, b)
        PROVE  \E claim \in ClaimRow :
                 /\ claims' = [claims EXCEPT ![c] = claim]
                 /\ claim.vendor # None => claim.batch # None
                 /\ claim.product # None => claim.vendor # None
                 /\ claims[c].product # None => claim.product # None
    <3> DEFINE claim == [NoClaim EXCEPT !.vendor = vendor, !.batch = b, !.live = TRUE]
    <3>1. claim \in ClaimRow /\ claim.vendor = vendor /\ claim.batch = b /\ claim.product = None
      BY Constants DEF ClaimRow
    <3>2. claims' = [claims EXCEPT ![c] = claim] /\ claims[c].product = None
      BY <2>2, Constants DEF Lookup
    <3> HIDE DEF claim
    <3> QED  BY <3>1, <3>2, NoneApart
  <2> QED  BY <2>1, <2>2
<1>4. MarketType'
  BY <1>1, <1>2, <1>3 DEF MarketType
<1>5. ASSUME NEW d \in Claims PROVE ClaimHolds(d)'
  BY <1>2, <1>3, <1>5 DEF ClaimHolds, Wellformed, MarketType
<1>6. \A d \in Claims : claims[d].product # None => claims'[d].product # None
  BY <1>2, <1>3 DEF MarketType
<1>7. ASSUME NEW u \in Claimants PROVE DealingHolds(u)'
  <2>1. dealings' = dealings /\ batches' = batches /\ DealingHolds(u)
    BY <1>1 DEF genVars, Wellformed
  <2> QED  BY <1>6, <2>1 DEF DealingHolds
<1> QED  BY <1>1, <1>4, <1>5, <1>7, GenKept DEF Wellformed

\* A dealing begins, with the claim as it was read.
LEMMA DealBegins ==
    ASSUME Wellformed, NEW u \in Claimants, NEW c \in Claims,
           NEW stage \in {"linking", "wrong", "checked"}, NEW claim \in ClaimRow,
           Deal(u, stage, c, claim),
           claim.vendor \in Vendors, claim.batch \in Batches, claim.product \in Products,
           stage # "linking" => claims[c].product # None
    PROVE  Wellformed'
<1> DEFINE d == [NoDealing EXCEPT !.stage = stage, !.c = c, !.claim = claim]
<1>1. d \in DealingRow /\ d.stage = stage /\ d.c = c /\ d.claim = claim
  BY Constants DEF DealingRow
<1>2. dealings' = [dealings EXCEPT ![u] = d] /\ UNCHANGED <<genVars, claims, sent>>
  BY DEF Deal
<1> HIDE DEF d
<1>3. MarketType'
  BY <1>1, <1>2 DEF Wellformed, MarketType
<1>4. \A e \in Claims : ClaimHolds(e)'
  BY <1>2 DEF Wellformed, ClaimHolds
<1>5. ASSUME NEW v \in Claimants PROVE DealingHolds(v)'
  <2>1. CASE v = u
    <3>1. dealings'[v] = d
      BY <1>2, <2>1 DEF Wellformed, MarketType
    <3> QED  BY <1>1, <1>2, <3>1 DEF DealingHolds
  <2>2. CASE v # u
    <3>1. dealings'[v] = dealings[v] /\ batches' = batches /\ claims' = claims
      BY <1>2, <2>2 DEF Wellformed, MarketType, genVars
    <3> QED  BY <3>1 DEF Wellformed, DealingHolds
  <2> QED  BY <2>1, <2>2
<1> QED  BY <1>2, <1>3, <1>4, <1>5, GenKept DEF Wellformed

\* Linking a product changes nothing else of a claim that its vendor cares for.
LEMMA Relinked ==
    ASSUME NEW V, NEW B, NEW P, NEW O, NEW T, NEW L, NEW C,
           NEW x \in [vendor: V, batch: B, product: P, otp: O, tries: T, live: L, consumed: C],
           NEW p \in P, NEW t \in T, NEW l \in L
    PROVE  LET y == [x EXCEPT !.product = p, !.tries = t, !.live = l] IN
           /\ y \in [vendor: V, batch: B, product: P, otp: O, tries: T, live: L, consumed: C]
           /\ y.vendor = x.vendor /\ y.batch = x.batch /\ y.product = p
  OBVIOUS

LEMMA ReadsSteps ==
    ASSUME Wellformed, NEW u \in Claimants, NEW c \in Claims,
           (\E p \in Products : LinkReads(u, c, p)) \/ (\E code \in 0..MaxSent : VerifyReads(u, c, code))
    PROVE  Wellformed'
<1>1. claims[c] \in ClaimRow /\ ClaimHolds(c)
  BY DEF Wellformed, MarketType
<1>2. ASSUME NEW p \in Products, LinkReads(u, c, p) PROVE Wellformed'
  <2> DEFINE claim == [claims[c] EXCEPT !.product = p, !.tries = 0, !.live = TRUE]
  <2>1. claims[c].vendor # None
    BY <1>2, GenerationAssumption DEF LinkReads
  <2>2. claims[c].vendor \in Vendors /\ claims[c].batch \in Batches
    BY <1>1, <2>1 DEF ClaimHolds, ClaimRow
  <2>3. claim \in ClaimRow /\ claim.vendor = claims[c].vendor /\ claim.batch = claims[c].batch
        /\ claim.product = p
    <3>1. 0 \in 0..MaxTries
      BY SizesPositive
    <3> QED  BY <1>1, <3>1, Relinked DEF ClaimRow
  <2>4. Deal(u, "linking", c, claim)
    BY <1>2 DEF LinkReads
  <2> HIDE DEF claim
  <2> QED  BY <2>2, <2>3, <2>4, DealBegins
<1>3. ASSUME NEW code \in 0..MaxSent, VerifyReads(u, c, code) PROVE Wellformed'
  <2> DEFINE claim == [claims[c] EXCEPT !.tries = claims[c].tries + 1]
  <2>1. claims[c].product # None /\ claims[c].tries < MaxTries
    BY <1>3 DEF VerifyReads
  <2>2. claims[c].vendor \in Vendors /\ claims[c].batch \in Batches /\ claims[c].product \in Products
    BY <1>1, <2>1 DEF ClaimHolds, ClaimRow
  <2>3. claims[c].tries + 1 \in 0..MaxTries
    BY <1>1, <2>1, SizesPositive DEF ClaimRow
  <2>4. claim \in ClaimRow /\ claim.vendor = claims[c].vendor /\ claim.batch = claims[c].batch
        /\ claim.product = claims[c].product
    BY <1>1, <2>3 DEF ClaimRow
  <2>5. PICK stage \in {"wrong", "checked"} : Deal(u, stage, c, claim)
    BY <1>3 DEF VerifyReads
  <2> HIDE DEF claim
  <2> QED  BY <2>1, <2>2, <2>4, <2>5, DealBegins
<1> QED  BY <1>2, <1>3

\* A dealing ends with the claim saved.
LEMMA ClaimSaved ==
    ASSUME Wellformed, NEW u \in Claimants, dealings[u].stage # "idle", NEW claim \in ClaimRow,
           claims' = [claims EXCEPT ![dealings[u].c] = claim],
           dealings' = [dealings EXCEPT ![u] = NoDealing],
           sent' \in [Claims -> 0..MaxSent],
           claim.vendor \in Vendors, claim.batch \in Batches, claim.product \in Products,
           DOMAIN batches \subseteq DOMAIN batches'
    PROVE  /\ MarketType'
           /\ \A c \in Claims : ClaimHolds(c)'
           /\ \A v \in Claimants : DealingHolds(v)'
<1>1. MarketType'
  BY Constants DEF Wellformed, MarketType
<1>2. ASSUME NEW c \in Claims PROVE ClaimHolds(c)' /\ (claims[c].product # None => claims'[c].product # None)
  BY NoneApart DEF Wellformed, MarketType, ClaimHolds
<1>3. ASSUME NEW v \in Claimants PROVE DealingHolds(v)'
  <2>1. CASE v = u
    BY <2>1, Constants DEF Wellformed, MarketType, DealingHolds
  <2>2. CASE v # u
    <3>1. dealings'[v] = dealings[v] /\ DealingHolds(v)
      BY <2>2 DEF Wellformed, MarketType
    <3> QED  BY <1>2, <3>1 DEF DealingHolds
  <2> QED  BY <2>1, <2>2
<1> QED  BY <1>1, <1>2, <1>3

LEMMA SavesSteps ==
    ASSUME Wellformed, NEW u \in Claimants, LinkSaves(u) \/ VerifyFails(u)
    PROVE  Wellformed'
<1> DEFINE d == dealings[u]
<1>1. d \in DealingRow /\ DealingHolds(u) /\ d.stage # "idle"
  BY DEF LinkSaves, VerifyFails, Wellformed, MarketType
<1>2. UNCHANGED genVars
  BY DEF LinkSaves, VerifyFails, SavesClaim
<1>3. /\ d.c \in Claims /\ d.claim.vendor \in Vendors /\ d.claim.batch \in Batches
      /\ d.claim.product \in Products /\ d.claim \in ClaimRow /\ sent \in [Claims -> 0..MaxSent]
  BY <1>1 DEF DealingHolds, DealingRow, Wellformed, MarketType
<1>4. PICK claim \in ClaimRow :
         /\ claims' = [claims EXCEPT ![d.c] = claim]
         /\ claim.vendor = d.claim.vendor /\ claim.batch = d.claim.batch
         /\ claim.product = d.claim.product
  <2>1. CASE LinkSaves(u)
    <3>1. sent[d.c] + 1 \in 0..MaxSent
      BY <1>3, <2>1, SizesPositive DEF LinkSaves
    <3>2. [d.claim EXCEPT !.otp = sent[d.c] + 1] \in ClaimRow
      BY <1>3, <3>1 DEF ClaimRow
    <3>3. /\ [d.claim EXCEPT !.otp = sent[d.c] + 1].vendor = d.claim.vendor
          /\ [d.claim EXCEPT !.otp = sent[d.c] + 1].batch = d.claim.batch
          /\ [d.claim EXCEPT !.otp = sent[d.c] + 1].product = d.claim.product
      BY <1>3 DEF ClaimRow
    <3> QED  BY <2>1, <3>2, <3>3 DEF LinkSaves, SavesClaim
  <2>2. CASE VerifyFails(u)
    BY <1>3, <2>2 DEF VerifyFails, SavesClaim
  <2> QED  BY <2>1, <2>2
<1>5. dealings' = [dealings EXCEPT ![u] = NoDealing]
  BY DEF LinkSaves, VerifyFails, SavesClaim
<1>6. sent' \in [Claims -> 0..MaxSent]
  <2>1. CASE LinkSaves(u)
    <3>1. sent[d.c] + 1 \in 0..MaxSent
      BY <1>3, <2>1, SizesPositive DEF LinkSaves
    <3> QED  BY <1>3, <2>1, <3>1 DEF LinkSaves
  <2>2. CASE VerifyFails(u)
    BY <1>3, <2>2 DEF VerifyFails
  <2> QED  BY <2>1, <2>2
<1>7. DOMAIN batches \subseteq DOMAIN batches'
  BY <1>2 DEF genVars
<1> QED  BY <1>1, <1>2, <1>3, <1>4, <1>5, <1>6, <1>7, GenKept, ClaimSaved DEF Wellformed

LEMMA LocksStep ==
    ASSUME Wellformed, NEW u \in Claimants, VerifyLocks(u)
    PROVE  Wellformed'
<1> DEFINE d == dealings[u]  c == d.c  claim == claims[c]  b == claim.batch  p == claim.product
<1>1. /\ d \in DealingRow /\ d.stage = "checked" /\ c \in Claims /\ claim \in ClaimRow
      /\ claim.vendor \in Vendors /\ b \in Batches /\ p \in Products
  BY DEF VerifyLocks, Wellformed, MarketType, DealingHolds, ClaimHolds, ClaimRow
<1>2. UNCHANGED <<products, spaces, sequence, batches, requests, reviewed, origin, claims, sent>>
  BY DEF VerifyLocks
<1>3. holder' \in [Products -> Requests \cup Claimants \cup {None}]
  BY DEF VerifyLocks, Wellformed, GenType
<1>4. GenType'
  BY <1>2, <1>3 DEF Wellformed, GenType
<1>5. \E new \in DealingRow :
         /\ dealings' = [dealings EXCEPT ![u] = new]
         /\ new.stage # "idle" =>
               /\ new.c = c /\ new.claim.vendor = claim.vendor /\ new.claim.batch = b
               /\ new.claim.product = p /\ b \in DOMAIN batches
  <2>1. CASE dealings' = [dealings EXCEPT ![u] = NoDealing]
    BY <2>1, Constants
  <2>2. CASE dealings' # [dealings EXCEPT ![u] = NoDealing]
    <3> DEFINE kept == [claim EXCEPT !.tries = d.claim.tries, !.consumed = TRUE]
               old == products[batches[b].product]
               new == [d EXCEPT !.stage = "bound", !.row = products[p], !.old = old, !.claim = kept]
    <3>1. /\ b \in DOMAIN batches
          /\ dealings' = [dealings EXCEPT ![u].stage = "bound", ![u].row = products[p],
                                          ![u].old = old, ![u].claim = kept]
      BY <2>2 DEF VerifyLocks, Available
    <3>2. products[p] \in ProductRow /\ old \in ProductRow
      BY <1>1, <3>1 DEF Wellformed, GenType, BatchRow
    <3>3. d.claim.tries \in 0..MaxTries
      BY <1>1 DEF DealingRow, ClaimRow
    <3>4. kept \in ClaimRow /\ kept.vendor = claim.vendor /\ kept.batch = b /\ kept.product = p
      BY <1>1, <3>3 DEF ClaimRow
    <3>5. dealings' = [dealings EXCEPT ![u] = new]
      BY <3>1 DEF Wellformed, MarketType
    <3> HIDE DEF kept, old
    <3>6. new \in DealingRow /\ new.c = c /\ new.claim = kept
      BY <1>1, <3>2, <3>4 DEF DealingRow
    <3> HIDE DEF new
    <3> QED  BY <3>1, <3>4, <3>5, <3>6
  <2> QED  BY <2>1, <2>2
<1>6. PICK new \in DealingRow :
         /\ dealings' = [dealings EXCEPT ![u] = new]
         /\ new.stage # "idle" =>
               /\ new.c = c /\ new.claim.vendor = claim.vendor /\ new.claim.batch = b
               /\ new.claim.product = p /\ b \in DOMAIN batches
  BY <1>5
<1>7. MarketType'
  BY <1>2, <1>6 DEF Wellformed, MarketType
<1>8. ASSUME NEW v \in Claimants PROVE DealingHolds(v)'
  <2>1. CASE v = u
    <3>1. dealings'[v] = new
      BY <1>6, <2>1 DEF Wellformed, MarketType
    <3> QED  BY <1>1, <1>2, <1>6, <3>1, NoneApart DEF DealingHolds
  <2>2. CASE v # u
    BY <1>2, <1>6, <2>2 DEF Wellformed, MarketType, DealingHolds
  <2> QED  BY <2>1, <2>2
<1> QED  BY <1>2, <1>4, <1>7, <1>8 DEF Wellformed, RequestHolds, Busy, ClaimHolds

LEMMA DealFailsStep ==
    ASSUME Wellformed, NEW u \in Claimants, DealFails(u)
    PROVE  Wellformed'
<1>1. /\ UNCHANGED <<products, spaces, sequence, batches, requests, reviewed, origin, claims, sent>>
      /\ dealings' = [dealings EXCEPT ![u] = NoDealing]
      /\ holder' \in [Products -> Requests \cup Claimants \cup {None}]
  BY DEF DealFails, Wellformed, GenType
<1>2. GenType' /\ MarketType'
  BY <1>1, Constants DEF Wellformed, GenType, MarketType
<1>3. ASSUME NEW v \in Claimants PROVE DealingHolds(v)'
  <2>1. CASE v = u
    BY <1>1, <2>1, Constants DEF Wellformed, MarketType, DealingHolds
  <2>2. CASE v # u
    BY <1>1, <2>2 DEF Wellformed, MarketType, DealingHolds
  <2> QED  BY <2>1, <2>2
<1> QED  BY <1>1, <1>2, <1>3 DEF Wellformed, RequestHolds, Busy, ClaimHolds

\* A confirmation changes whose batch it is, and none of its serials.
LEMMA CommitsKeepSerials ==
    ASSUME Wellformed, NEW u \in Claimants, VerifyCommits(u)
    PROVE  /\ DOMAIN batches' = DOMAIN batches
           /\ \A b \in DOMAIN batches :
                 /\ batches'[b] \in BatchRow
                 /\ batches'[b].ns = batches[b].ns /\ batches'[b].first = batches[b].first
                 /\ batches'[b].last = batches[b].last
<1> DEFINE d == dealings[u]  b == d.claim.batch
           sold == [batches[b] EXCEPT !.org = d.claim.vendor, !.product = d.claim.product,
                                      !.status = "market_active"]
<1>1. /\ d.claim.vendor \in Vendors /\ d.claim.product \in Products /\ b \in DOMAIN batches
      /\ batches[b] \in BatchRow
  BY DEF VerifyCommits, Wellformed, GenType, DealingHolds
<1>2. /\ sold \in BatchRow /\ sold.ns = batches[b].ns /\ sold.first = batches[b].first
      /\ sold.last = batches[b].last
  BY <1>1 DEF BatchRow, Orgs
<1>3. batches' = [batches EXCEPT ![b] = sold]
  BY DEF VerifyCommits
<1> HIDE DEF sold
<1> QED  BY <1>1, <1>2, <1>3 DEF Wellformed, GenType

LEMMA CommitsStep ==
    ASSUME Wellformed, NEW u \in Claimants, VerifyCommits(u)
    PROVE  Wellformed'
<1> DEFINE d == dealings[u]  b == d.claim.batch  p == d.claim.product
           old == batches[b].product
           quantity == (batches[b].last - batches[b].first) + 1
<1>1. /\ d \in DealingRow /\ d.stage # "idle" /\ d.c \in Claims /\ d.claim \in ClaimRow
      /\ d.claim.vendor \in Vendors /\ d.claim.batch \in Batches /\ p \in Products
      /\ b \in DOMAIN batches /\ batches[b] \in BatchRow
      /\ batches[b].first <= batches[b].last
      /\ d.row \in ProductRow /\ d.old \in ProductRow
  BY DEF VerifyCommits, Wellformed, GenType, MarketType, DealingHolds, DealingRow
<1>2. quantity \in Nat /\ old \in Products
  BY <1>1, SizesPositive DEF BatchRow
<1>3. UNCHANGED <<spaces, sequence, requests, reviewed, origin>>
  BY DEF VerifyCommits
<1>4. holder' \in [Products -> Requests \cup Claimants \cup {None}]
  BY DEF VerifyCommits, Wellformed, GenType
<1>5. products' \in [Products -> ProductRow]
  <2> DEFINE gains == [d.row EXCEPT !.total = d.row.total + quantity]
             loses == IF d.old.present
                      THEN [d.old EXCEPT !.total = Minus(d.old.total, quantity)] ELSE products[old]
  <2>1. gains \in ProductRow
    BY <1>1, <1>2 DEF ProductRow
  <2>2. Minus(d.old.total, quantity) \in Nat
    BY <1>1, <1>2 DEF Minus, ProductRow
  <2>3. loses \in ProductRow
    BY <1>1, <1>2, <2>2 DEF ProductRow, Wellformed, GenType
  <2>4. products' = [products EXCEPT ![p] = gains, ![old] = loses]
    BY DEF VerifyCommits
  <2> HIDE DEF gains, loses
  <2> QED  BY <2>1, <2>3, <2>4 DEF Wellformed, GenType
<1>6. /\ DOMAIN batches' = DOMAIN batches
      /\ \A a \in DOMAIN batches' : batches'[a] \in BatchRow /\ batches'[a].first <= batches'[a].last
  BY CommitsKeepSerials DEF Wellformed
<1>7. GenType'
  BY <1>3, <1>4, <1>5, <1>6 DEF Wellformed, GenType
<1>8. /\ claims' = [claims EXCEPT ![d.c] = d.claim] /\ dealings' = [dealings EXCEPT ![u] = NoDealing]
      /\ sent' \in [Claims -> 0..MaxSent]
  BY DEF VerifyCommits, Wellformed, MarketType
<1>9. /\ MarketType' /\ \A c \in Claims : ClaimHolds(c)'
      /\ \A v \in Claimants : DealingHolds(v)'
  BY <1>1, <1>6, <1>8, ClaimSaved
<1> QED  BY <1>3, <1>6, <1>7, <1>9 DEF Wellformed, RequestHolds, Busy

LEMMA StepWellformed == Wellformed /\ SpacesKnown /\ [Next]_vars => Wellformed'
<1> SUFFICES ASSUME Wellformed, SpacesKnown, [Next]_vars PROVE Wellformed'
  OBVIOUS
<1>1. CASE GenNext /\ UNCHANGED <<claims, sent, dealings>>
  BY <1>1, ProductSteps, ReadSteps, SaveStep, StartStep, LockStep, ReserveStep, CommitStep, FailStep
     DEF GenNext
<1>2. ASSUME NEW c \in Claims,
             \/ \E vendor \in Vendors, b \in Batches : Lookup(c, vendor, b)
             \/ Expire(c)
             \/ \E u \in Claimants :
                   \/ \E p \in Products : LinkReads(u, c, p)
                   \/ \E code \in 0..MaxSent : VerifyReads(u, c, code)
      PROVE  Wellformed'
  BY <1>2, LookupSteps, ReadsSteps
<1>3. ASSUME NEW u \in Claimants,
             \/ LinkSaves(u) \/ VerifyFails(u) \/ VerifyLocks(u) \/ VerifyCommits(u)
             \/ DealFails(u)
      PROVE  Wellformed'
  BY <1>3, SavesSteps, LocksStep, CommitsStep, DealFailsStep
<1>4. CASE UNCHANGED vars
  BY <1>4, MarketKept, GenKept DEF vars, genVars, Wellformed
<1> QED  BY <1>1, <1>2, <1>3, <1>4 DEF Next

-----------------------------------------------------------------------------
(* Serials.                                                                *)

\* No two organisations have one namespace.
SpacesApart ==
    \A o, p \in Orgs : o # p /\ spaces[o].ns = spaces[p].ns => spaces[o].ns = 0

\* The serials of a batch lie below the next one of the namespace they are from, whoever
\* has the batch now.
BatchesCovered ==
    \A b \in DOMAIN batches : \E o \in Orgs :
        spaces[o].ns = batches[b].ns /\ batches[b].last < spaces[o].next

BatchesApart ==
    \A a, b \in DOMAIN batches :
        a # b /\ batches[a].ns = batches[b].ns =>
            batches[a].last < batches[b].first \/ batches[b].last < batches[a].first

\* Who has reserved serials is alone in his organisation, and has its row as it is, or a
\* namespace that nobody else has.
ReservedAlone ==
    \A q \in Reserved :
        /\ spaces[OrgOf(q)].ns # 0 => requests[q].space = spaces[OrgOf(q)]
        /\ spaces[OrgOf(q)].ns = 0 => \A o \in Orgs : spaces[o].ns # requests[q].space.ns
        /\ \A r \in Reserved \ {q} :
              OrgOf(r) # OrgOf(q) /\ requests[r].space.ns # requests[q].space.ns

IInv ==
    /\ Wellformed /\ SpacesKnown
    /\ SpacesApart /\ BatchesCovered /\ BatchesApart /\ ReservedAlone

LEMMA InitIInv == Init => IInv
<1> SUFFICES ASSUME Init PROVE IInv
  OBVIOUS
<1>1. Wellformed
  BY InitWellformed
<1>2. DOMAIN batches = {} /\ Reserved = {}
  BY Constants DEF Init, GenInit, Reserved
<1>3. \A o \in Orgs : spaces[o] = NoSpace
  BY DEF Init, GenInit
<1>4. SpacesKnown /\ SpacesApart
  BY <1>3 DEF NoSpace, SpacesKnown, SpacesApart, Init, GenInit
<1> QED  BY <1>1, <1>2, <1>4 DEF IInv, BatchesCovered, BatchesApart, ReservedAlone

\* Steps that reserve nothing and allocate nothing.
LEMMA SerialsKept ==
    ASSUME IInv, UNCHANGED spaces, sequence' \in Nat, sequence <= sequence',
           DOMAIN batches' = DOMAIN batches,
           \A b \in DOMAIN batches :
              /\ batches'[b].ns = batches[b].ns /\ batches'[b].first = batches[b].first
              /\ batches'[b].last = batches[b].last,
           \A q \in Requests : requests'[q].stage = "reserved" => requests'[q] = requests[q]
    PROVE  SpacesKnown' /\ SpacesApart' /\ BatchesCovered' /\ BatchesApart' /\ ReservedAlone'
<1>0. sequence \in Nat /\ \A o \in Orgs : spaces[o].ns \in Nat
  BY SizesPositive DEF IInv, Wellformed, GenType, SpaceRow
<1>1. SpacesKnown'
  BY <1>0 DEF IInv, SpacesKnown
<1>2. SpacesApart'
  BY DEF IInv, SpacesApart
<1>3. BatchesCovered'
  BY DEF IInv, BatchesCovered
<1>4. BatchesApart'
  BY DEF IInv, BatchesApart
<1>5. \A q \in Reserved' : q \in Reserved /\ requests'[q] = requests[q] /\ OrgOf(q)' = OrgOf(q)
  BY DEF Reserved, OrgOf
<1>6. ReservedAlone'
  BY <1>5 DEF IInv, ReservedAlone
<1> QED  BY <1>1, <1>2, <1>3, <1>4, <1>6

LEMMA ReserveApart ==
    ASSUME IInv, NEW q \in Requests, Reserve(q)
    PROVE  SpacesKnown' /\ SpacesApart' /\ BatchesCovered' /\ BatchesApart' /\ ReservedAlone'
<1>t. /\ Wellformed /\ SpacesKnown /\ requests \in [Requests -> RequestRow]
      /\ sequence \in Nat /\ \A o \in Orgs : spaces[o] \in SpaceRow /\ spaces[o].ns \in Nat
  BY SizesPositive DEF IInv, Wellformed, GenType, SpaceRow
<1>1. /\ UNCHANGED <<products, spaces, batches, reviewed, origin>>
      /\ sequence' \in Nat /\ sequence <= sequence'
  BY <1>t, ReserveTakes DEF SpacesKnown
<1>2. CASE requests' = [requests EXCEPT ![q] = Idle]
  <2>1. \A r \in Requests : requests'[r].stage = "reserved" => requests'[r] = requests[r]
    BY <1>t, <1>2, Constants
  <2> QED  BY <1>1, <2>1, SerialsKept
<1>3. CASE requests' # [requests EXCEPT ![q] = Idle]
  <2>0. PICK version \in Versions : requests' = [requests EXCEPT ![q] =
           [requests[q] EXCEPT !.stage = "reserved", !.version = version,
                               !.space = SpaceTaken(q)]]
    BY <1>t, <1>3, ReserveTakes DEF SpacesKnown
  <2> DEFINE row == [requests[q] EXCEPT !.stage = "reserved", !.version = version,
                                        !.space = SpaceTaken(q)]
             org == OrgOf(q)
  <2>1. /\ requests' = [requests EXCEPT ![q] = row] /\ SpaceFree(q) /\ org \in Orgs
        /\ SpaceTaken(q).ns \in 1..sequence'
    BY <1>t, <1>3, <2>0, ReserveTakes DEF SpacesKnown
  <2>2. row.space = SpaceTaken(q) /\ row.product = requests[q].product
    BY <1>t DEF RequestRow
  <2>3. requests'[q].space = SpaceTaken(q) /\ OrgOf(q)' = org
    BY <1>t, <2>1, <2>2 DEF OrgOf
  <2>4. ASSUME NEW r \in Reserved', r # q
        PROVE  /\ r \in Reserved /\ requests'[r] = requests[r] /\ OrgOf(r)' = OrgOf(r)
               /\ OrgOf(r) # org /\ OrgOf(r) \in Orgs
               /\ requests[r].space.ns \in 1..sequence
               /\ requests[r].space.ns # SpaceTaken(q).ns
    <3>1. r \in Requests /\ requests'[r] = requests[r]
      BY <1>t, <2>1, <2>4 DEF Reserved
    <3>2. r \in Reserved /\ OrgOf(r)' = OrgOf(r) /\ OrgOf(r) # org
      BY <2>1, <2>4, <3>1 DEF Reserved, OrgOf, SpaceFree
    <3>3. requests[r].space.ns \in 1..sequence /\ OrgOf(r) \in Orgs
      BY <1>t, <3>1, <3>2, GenerationAssumption DEF Reserved, Wellformed, RequestHolds, OrgOf
    <3>4. requests[r].space.ns # SpaceTaken(q).ns
      <4>1. CASE spaces[org].ns = 0
        <5>1. SpaceTaken(q).ns = sequence + 1
          BY <4>1 DEF SpaceTaken
        <5> QED  BY <1>t, <3>3, <5>1
      <4>2. CASE spaces[org].ns # 0
        <5>1. SpaceTaken(q).ns = spaces[org].ns
          BY <4>2 DEF SpaceTaken
        <5>2. CASE spaces[OrgOf(r)].ns # 0
          BY <2>1, <3>2, <3>3, <4>2, <5>1, <5>2 DEF IInv, SpacesApart, ReservedAlone
        <5>3. CASE spaces[OrgOf(r)].ns = 0
          BY <2>1, <3>2, <5>1, <5>3 DEF IInv, ReservedAlone
        <5> QED  BY <5>2, <5>3
      <4> QED  BY <4>1, <4>2
    <3> QED  BY <3>1, <3>2, <3>3, <3>4
  <2>5. /\ spaces[org].ns # 0 => SpaceTaken(q) = spaces[org]
        /\ spaces[org].ns = 0 => \A o \in Orgs : spaces[o].ns # SpaceTaken(q).ns
    <3>1. CASE spaces[org].ns = 0
      <4>1. SpaceTaken(q).ns = sequence + 1
        BY <3>1 DEF SpaceTaken
      <4> QED  BY <1>t, <3>1, <4>1 DEF SpacesKnown
    <3>2. CASE spaces[org].ns # 0
      BY <3>2 DEF SpaceTaken
    <3> QED  BY <3>1, <3>2
  <2>6. ReservedAlone'
    <3> SUFFICES ASSUME NEW r \in Reserved'
                 PROVE  /\ spaces'[OrgOf(r)'].ns # 0 => requests'[r].space = spaces'[OrgOf(r)']
                        /\ spaces'[OrgOf(r)'].ns = 0 =>
                              \A o \in Orgs : spaces'[o].ns # requests'[r].space.ns
                        /\ \A s \in Reserved' \ {r} :
                              OrgOf(s)' # OrgOf(r)' /\ requests'[s].space.ns # requests'[r].space.ns
      BY DEF ReservedAlone
    <3>1. CASE r = q
      BY <1>1, <2>3, <2>4, <2>5, <3>1
    <3>2. CASE r # q
      <4>1. ASSUME NEW s \in Reserved', s # r
            PROVE  OrgOf(s)' # OrgOf(r)' /\ requests'[s].space.ns # requests'[r].space.ns
        <5>1. CASE s = q
          BY <2>3, <2>4, <3>2, <5>1
        <5>2. CASE s # q
          BY <2>4, <3>2, <4>1, <5>2 DEF IInv, ReservedAlone
        <5> QED  BY <5>1, <5>2
      <4>2. r \in Reserved /\ requests'[r] = requests[r] /\ OrgOf(r)' = OrgOf(r)
        BY <2>4, <3>2
      <4> QED  BY <1>1, <4>1, <4>2 DEF IInv, ReservedAlone
    <3> QED  BY <3>1, <3>2
  <2>7. SpacesKnown'
    BY <1>1, <1>t DEF SpacesKnown
  <2>8. SpacesApart' /\ BatchesCovered' /\ BatchesApart'
    BY <1>1 DEF IInv, SpacesApart, BatchesCovered, BatchesApart
  <2> QED  BY <2>6, <2>7, <2>8
<1> QED  BY <1>2, <1>3

LEMMA CommitApart ==
    ASSUME IInv, NEW q \in Requests, Commit(q)
    PROVE  SpacesKnown' /\ SpacesApart' /\ BatchesCovered' /\ BatchesApart' /\ ReservedAlone'
<1> DEFINE s == requests[q].space  n == requests[q].quantity  org == OrgOf(q)
           row == [ns |-> s.ns, next |-> s.next + n]
<1>t. /\ Wellformed /\ SpacesKnown /\ requests \in [Requests -> RequestRow]
      /\ sequence \in Nat /\ spaces \in [Orgs -> SpaceRow]
      /\ \A o \in Orgs : spaces[o].ns \in Nat /\ spaces[o].next \in Nat
  BY SizesPositive DEF IInv, Wellformed, GenType, SpaceRow
<1>1. q \in Reserved /\ s.ns \in 1..sequence /\ n \in Nat \ {0} /\ s.next \in Nat
  BY <1>t, SizesPositive
     DEF Commit, Reserved, Wellformed, RequestHolds, Busy, RequestRow, SpaceRow
<1>2. PICK b \in Batches \ DOMAIN batches :
         /\ DOMAIN batches' = DOMAIN batches \cup {b}
         /\ batches'[b] = NewBatch(q)
         /\ \A a \in DOMAIN batches : batches'[a] = batches[a]
  BY <1>t, CommitAdds
<1>3. /\ batches'[b].ns = s.ns /\ batches'[b].first = s.next /\ batches'[b].last = (s.next + n) - 1
      /\ org \in Orgs
  BY <1>t, <1>2, CommitAdds
<1>4. /\ spaces' = [spaces EXCEPT ![org] = row] /\ requests' = [requests EXCEPT ![q] = Idle]
      /\ UNCHANGED sequence
  BY DEF Commit
<1>5. /\ spaces[org].ns # 0 => s = spaces[org]
      /\ spaces[org].ns = 0 => \A o \in Orgs : spaces[o].ns # s.ns
      /\ \A r \in Reserved \ {q} : OrgOf(r) # org /\ requests[r].space.ns # s.ns
  BY <1>1 DEF IInv, ReservedAlone
<1>6. /\ spaces'[org].ns = s.ns /\ spaces'[org].next = s.next + n
      /\ \A o \in Orgs \ {org} : spaces'[o] = spaces[o]
  BY <1>t, <1>3, <1>4
<1>7. \A o \in Orgs \ {org} : spaces[o].ns # s.ns
  <2>1. CASE spaces[org].ns = 0
    BY <1>5, <2>1
  <2>2. CASE spaces[org].ns # 0
    BY <1>1, <1>3, <1>5, <2>2 DEF IInv, SpacesApart
  <2> QED  BY <2>1, <2>2
<1>8. \A a \in DOMAIN batches : batches[a] \in BatchRow /\ batches[a].ns \in Nat \ {0}
         /\ batches[a].last \in Nat /\ batches[a].first \in Nat
  BY <1>t, SizesPositive DEF Wellformed, GenType, BatchRow
<1> HIDE DEF s, n, org, row
<1>9. SpacesKnown'
  BY <1>t, <1>1, <1>4, <1>6 DEF SpacesKnown
<1>10. SpacesApart'
  BY <1>t, <1>6, <1>7 DEF IInv, SpacesApart
<1>11. \A a \in DOMAIN batches : batches[a].ns = s.ns => batches[a].last < s.next
  <2> SUFFICES ASSUME NEW a \in DOMAIN batches, batches[a].ns = s.ns PROVE batches[a].last < s.next
    OBVIOUS
  <2>1. PICK o \in Orgs : spaces[o].ns = batches[a].ns /\ batches[a].last < spaces[o].next
    BY DEF IInv, BatchesCovered
  <2>2. o = org /\ spaces[org].ns # 0
    BY <1>7, <1>8, <2>1
  <2> QED  BY <1>5, <2>1, <2>2
<1>12. BatchesCovered'
  <2> SUFFICES ASSUME NEW a \in DOMAIN batches'
               PROVE  \E o \in Orgs : spaces'[o].ns = batches'[a].ns /\ batches'[a].last < spaces'[o].next
    BY DEF BatchesCovered
  <2>1. CASE a = b
    BY <1>1, <1>3, <1>6, <2>1
  <2>2. CASE a # b
    <3>1. a \in DOMAIN batches /\ batches'[a] = batches[a]
      BY <1>2, <2>2
    <3>2. PICK o \in Orgs : spaces[o].ns = batches[a].ns /\ batches[a].last < spaces[o].next
      BY <3>1 DEF IInv, BatchesCovered
    <3>3. CASE o = org
      <4>1. s = spaces[org]
        BY <1>5, <1>8, <3>1, <3>2, <3>3
      <4> QED  BY <1>1, <1>6, <1>8, <3>1, <3>2, <3>3, <4>1
    <3>4. CASE o # org
      BY <1>6, <3>1, <3>2, <3>4
    <3> QED  BY <3>3, <3>4
  <2> QED  BY <2>1, <2>2
<1>13. BatchesApart'
  BY <1>2, <1>3, <1>8, <1>11 DEF IInv, BatchesApart
<1>14. \A r \in Reserved' : /\ r \in Reserved \ {q} /\ requests'[r] = requests[r]
                            /\ OrgOf(r)' = OrgOf(r) /\ OrgOf(r) # org /\ OrgOf(r) \in Orgs
                            /\ requests[r].space.ns # s.ns
  <2> SUFFICES ASSUME NEW r \in Reserved'
               PROVE  /\ r \in Reserved \ {q} /\ requests'[r] = requests[r]
                      /\ OrgOf(r)' = OrgOf(r) /\ OrgOf(r) # org /\ OrgOf(r) \in Orgs
                      /\ requests[r].space.ns # s.ns
    OBVIOUS
  <2>1. r \in Reserved \ {q} /\ requests'[r] = requests[r]
    BY <1>t, <1>4, Constants DEF Reserved
  <2>2. OrgOf(r)' = OrgOf(r) /\ OrgOf(r) \in Orgs
    BY <1>t, <2>1, GenerationAssumption DEF OrgOf, Reserved, Wellformed, RequestHolds
  <2> QED  BY <1>5, <2>1, <2>2
<1>15. ReservedAlone'
  <2> SUFFICES ASSUME NEW r \in Reserved'
               PROVE  /\ spaces'[OrgOf(r)'].ns # 0 => requests'[r].space = spaces'[OrgOf(r)']
                      /\ spaces'[OrgOf(r)'].ns = 0 =>
                            \A o \in Orgs : spaces'[o].ns # requests'[r].space.ns
                      /\ \A t \in Reserved' \ {r} :
                            OrgOf(t)' # OrgOf(r)' /\ requests'[t].space.ns # requests'[r].space.ns
    BY DEF ReservedAlone
  <2>1. /\ r \in Reserved /\ requests'[r] = requests[r] /\ OrgOf(r)' = OrgOf(r)
        /\ spaces'[OrgOf(r)] = spaces[OrgOf(r)] /\ requests[r].space.ns # s.ns
    BY <1>6, <1>14
  <2>2. /\ spaces[OrgOf(r)].ns # 0 => requests[r].space = spaces[OrgOf(r)]
        /\ spaces[OrgOf(r)].ns = 0 => \A o \in Orgs : spaces[o].ns # requests[r].space.ns
        /\ \A t \in Reserved \ {r} :
              OrgOf(t) # OrgOf(r) /\ requests[t].space.ns # requests[r].space.ns
    BY <2>1 DEF IInv, ReservedAlone
  <2>3. spaces[OrgOf(r)].ns = 0 => \A o \in Orgs : spaces'[o].ns # requests[r].space.ns
    BY <1>6, <2>1, <2>2
  <2>4. \A t \in Reserved' \ {r} :
            OrgOf(t)' # OrgOf(r)' /\ requests'[t].space.ns # requests'[r].space.ns
    BY <1>14, <2>1, <2>2
  <2> QED  BY <2>1, <2>2, <2>3, <2>4
<1> QED  BY <1>9, <1>10, <1>12, <1>13, <1>15

\* Requests about products, and those that begin or end.
LEMMA RequestKeepsSerials ==
    ASSUME IInv, NEW q \in Requests, NEW row, row.stage # "reserved",
           requests' = [requests EXCEPT ![q] = row], UNCHANGED <<spaces, sequence, batches>>
    PROVE  SpacesKnown' /\ SpacesApart' /\ BatchesCovered' /\ BatchesApart' /\ ReservedAlone'
<1>1. sequence \in Nat /\ requests \in [Requests -> RequestRow]
  BY SizesPositive DEF IInv, Wellformed, GenType
<1>2. \A r \in Requests : requests'[r].stage = "reserved" => requests'[r] = requests[r]
  BY <1>1
<1> QED  BY <1>1, <1>2, SerialsKept

LEMMA StepIInv == IInv /\ [Next]_vars => IInv'
<1> SUFFICES ASSUME IInv, [Next]_vars PROVE IInv'
  OBVIOUS
<1> DEFINE Serials == SpacesKnown /\ SpacesApart /\ BatchesCovered /\ BatchesApart /\ ReservedAlone
<1>1. Wellformed'
  BY StepWellformed DEF IInv
<1>t. sequence \in Nat /\ requests \in [Requests -> RequestRow] /\ Wellformed
  BY SizesPositive DEF IInv, Wellformed, GenType
<1>2. ASSUME UNCHANGED <<spaces, sequence, batches, requests>> PROVE Serials'
  BY <1>t, <1>2, SerialsKept
<1>3. ASSUME NEW p \in Products, Create(p) \/ Recall(p) \/ \E key \in Keys : RepeatAssigned(p, key)
      PROVE  Serials'
  <2>1. UNCHANGED <<spaces, sequence, batches, requests>>
    BY <1>3 DEF Create, RepeatAssigned, Insert, Recall
  <2> QED  BY <1>2, <2>1
<1>4. ASSUME NEW q \in Requests, NEW p \in Products, VendorReads(q, p) \/ ReviewerReads(q, p)
      PROVE  Serials'
  <2>1. PICK new, approves : Open(q, p, new, approves)
    BY <1>4 DEF VendorReads, ReviewerReads
  <2> DEFINE row == [Idle EXCEPT !.stage = "read", !.product = p, !.row = new, !.approves = approves]
  <2>2. row.stage # "reserved"
    BY DEF Idle
  <2>3. requests' = [requests EXCEPT ![q] = row] /\ UNCHANGED <<spaces, sequence, batches>>
    BY <2>1 DEF Open
  <2> HIDE DEF row
  <2> QED  BY <2>2, <2>3, RequestKeepsSerials
<1>5. ASSUME NEW q \in Requests, NEW p \in Products, NEW key \in Keys, NEW quantity \in Quantities,
             GenerateOwn(q, p, key, quantity) \/ GenerateAssigned(q, p, key, quantity)
                \/ GenerateOpen(q, p, key, quantity)
      PROVE  Serials'
  <2>1. PICK open, assigned, fresh : Start(q, p, key, quantity, open, assigned, fresh)
    BY <1>5 DEF GenerateOwn, GenerateAssigned, GenerateOpen
  <2> DEFINE row == [Idle EXCEPT !.stage = "checked", !.open = open, !.assigned = assigned,
                                !.fresh = fresh, !.product = p, !.key = key,
                                !.quantity = quantity]
  <2>2. row.stage # "reserved"
    BY DEF Idle
  <2>3. requests' = [requests EXCEPT ![q] = row] /\ UNCHANGED <<spaces, sequence, batches>>
    BY <2>1 DEF Start
  <2> HIDE DEF row
  <2> QED  BY <2>2, <2>3, RequestKeepsSerials
<1>6. ASSUME NEW q \in Requests, Save(q) \/ Fail(q) PROVE Serials'
  <2>1. requests' = [requests EXCEPT ![q] = Idle] /\ UNCHANGED <<spaces, sequence, batches>>
    BY <1>6 DEF Save, Fail
  <2> QED  BY <2>1, Constants, RequestKeepsSerials
<1>7. ASSUME NEW q \in Requests, LockProduct(q) PROVE Serials'
  <2>1. UNCHANGED <<spaces, sequence, batches>>
    BY <1>7 DEF LockProduct
  <2>2. CASE requests' = [requests EXCEPT ![q] = Idle]
    BY <2>1, <2>2, Constants, RequestKeepsSerials
  <2>3. CASE requests' # [requests EXCEPT ![q] = Idle]
    <3> DEFINE p == requests[q].product
               row == IF requests[q].fresh THEN NewProduct("active", TRUE) ELSE products[p]
               new == [requests[q] EXCEPT !.stage = "locked", !.row = row]
    <3>1. requests' = [requests EXCEPT ![q].stage = "locked", ![q].row = row]
      BY <1>7, <2>3 DEF LockProduct
    <3>2. requests' = [requests EXCEPT ![q] = new]
      BY <1>t, <3>1
    <3>3. new.stage # "reserved"
      BY <1>t DEF RequestRow
    <3> HIDE DEF new
    <3> QED  BY <2>1, <3>2, <3>3, RequestKeepsSerials
  <2> QED  BY <2>2, <2>3
<1>8. ASSUME NEW q \in Requests, Reserve(q) \/ Commit(q) PROVE Serials'
  BY <1>8, ReserveApart, CommitApart
<1>9. CASE GenNext /\ UNCHANGED <<claims, sent, dealings>>
  BY <1>1, <1>3, <1>4, <1>5, <1>6, <1>7, <1>8, <1>9 DEF GenNext, IInv
<1>10. ASSUME NEW c \in Claims,
              \/ \E vendor \in Vendors, b \in Batches : Lookup(c, vendor, b)
              \/ Expire(c)
              \/ \E u \in Claimants :
                    \/ \E p \in Products : LinkReads(u, c, p)
                    \/ \E code \in 0..MaxSent : VerifyReads(u, c, code)
       PROVE  Serials'
  <2>1. UNCHANGED genVars
    BY <1>10 DEF Lookup, Expire, LinkReads, VerifyReads, Deal
  <2> QED  BY <1>2, <2>1 DEF genVars
<1>11. ASSUME NEW u \in Claimants,
              LinkSaves(u) \/ VerifyFails(u) \/ VerifyLocks(u) \/ DealFails(u)
       PROVE  Serials'
  <2>1. UNCHANGED <<spaces, sequence, batches, requests>>
    BY <1>11 DEF LinkSaves, VerifyFails, SavesClaim, VerifyLocks, DealFails, genVars
  <2> QED  BY <1>2, <2>1
<1>12. ASSUME NEW u \in Claimants, VerifyCommits(u) PROVE Serials'
  <2>1. UNCHANGED <<spaces, sequence, requests>>
    BY <1>12 DEF VerifyCommits
  <2>2. /\ DOMAIN batches' = DOMAIN batches
        /\ \A b \in DOMAIN batches :
              /\ batches'[b].ns = batches[b].ns /\ batches'[b].first = batches[b].first
              /\ batches'[b].last = batches[b].last
    BY <1>t, <1>12, CommitsKeepSerials
  <2> QED  BY <1>t, <2>1, <2>2, SerialsKept
<1>13. CASE UNCHANGED vars
  BY <1>1, <1>2, <1>13 DEF vars, IInv
<1> HIDE DEF Serials
<1>14. Serials'
  BY <1>3, <1>9, <1>10, <1>11, <1>12, <1>13 DEF Next, IInv, Serials
<1> QED  BY <1>1, <1>14 DEF IInv, Serials

-----------------------------------------------------------------------------
(* What follows.                                                           *)

LEMMA IInvAlways == Spec => []IInv
<1>1. Init => IInv
  BY InitIInv
<1>2. IInv /\ [Next]_vars => IInv'
  BY StepIInv
<1> QED  BY <1>1, <1>2, PTL DEF Spec

\* Every variable stays in its type: no batch has serials beyond the capacity, no
\* namespace is beyond the last one, no product has a negative number of codes.
THEOREM TypeCorrect == Spec => []TypeOK
<1>1. IInv => TypeOK
  BY DEF IInv, Wellformed, GenType, MarketType, TypeOK
<1> QED  BY <1>1, IInvAlways, PTL

\* The new serials of a request lie above those of every batch in its namespace.
LEMMA ReservedAbove ==
    ASSUME IInv, NEW q \in Reserved, NEW b \in DOMAIN batches,
           batches[b].ns = requests[q].space.ns
    PROVE  batches[b].last < requests[q].space.next
<1>1. /\ requests[q].space.ns # 0 /\ OrgOf(q) \in Orgs
      /\ \A o \in Orgs : spaces[o].ns \in Nat
  BY SizesPositive, GenerationAssumption
     DEF IInv, Wellformed, GenType, SpaceRow, Reserved, RequestHolds, OrgOf
<1>2. PICK o \in Orgs : spaces[o].ns = batches[b].ns /\ batches[b].last < spaces[o].next
  BY DEF IInv, BatchesCovered
<1>3. spaces[OrgOf(q)].ns # 0 /\ requests[q].space = spaces[OrgOf(q)]
  BY <1>2 DEF IInv, ReservedAlone
<1>4. o = OrgOf(q)
  BY <1>1, <1>2, <1>3 DEF IInv, SpacesApart
<1> QED  BY <1>2, <1>3, <1>4

\* No serial is given out twice, by any number of requests at once and whatever fails: the
\* advisory lock of the organisation is enough, for the first batch too, which finds no row
\* of the namespace to lock.
THEOREM SerialsNeverCollide == Spec => []AllocationsNeverCollide
<1>1. ASSUME IInv PROVE AllocationsNeverCollide
  <2>1. /\ requests \in [Requests -> RequestRow]
        /\ \A b \in DOMAIN batches : batches[b].first \in Nat /\ batches[b].last \in Nat
    BY <1>1, SizesPositive DEF IInv, Wellformed, GenType, BatchRow
  <2>2. \A q \in Reserved :
           /\ NewBatch(q).ns = requests[q].space.ns /\ NewBatch(q).first = requests[q].space.next
           /\ NewBatch(q).first \in Nat
           /\ NewBatch(q).last = (NewBatch(q).first + requests[q].quantity) - 1
           /\ NewBatch(q).last \in Nat
    <3> SUFFICES ASSUME NEW q \in Reserved
                 PROVE  requests[q].space.next \in Nat \ {0} /\ requests[q].quantity \in Nat
      BY DEF NewBatch
    <3>1. q \in Requests /\ Busy(q) /\ requests[q] \in RequestRow
      BY <2>1 DEF Reserved, Busy
    <3>2. requests[q].quantity \in Nat
      BY <1>1, <3>1, SizesPositive DEF IInv, Wellformed, RequestHolds
    <3>3. requests[q].space.next \in Nat \ {0}
      BY <3>1, SizesPositive DEF RequestRow, SpaceRow
    <3> QED  BY <3>2, <3>3
  <2>3. ASSUME NEW a \in DOMAIN batches, NEW b \in DOMAIN batches, a # b,
               batches[a].ns = batches[b].ns
        PROVE  batches[a].last < batches[b].first \/ batches[b].last < batches[a].first
    BY <1>1, <2>3 DEF IInv, BatchesApart
  <2>4. ASSUME NEW q \in Reserved, NEW b \in DOMAIN batches, batches[b].ns = NewBatch(q).ns
        PROVE  batches[b].last < NewBatch(q).first
    BY <1>1, <2>2, <2>4, ReservedAbove
  <2>5. ASSUME NEW q \in Reserved, NEW r \in Reserved, q # r
        PROVE  /\ NewBatch(q).ns # NewBatch(r).ns
               /\ OrgOf(q) # OrgOf(r) /\ requests[q].space.ns # requests[r].space.ns
    BY <1>1, <2>2, <2>5 DEF IInv, ReservedAlone
  <2>6. ASSUME NEW a \in Allocations, NEW z \in Allocations, a.ns = z.ns, a.by # z.by
        PROVE  a.last < z.first \/ z.last < a.first
    <3>1. \/ \E b \in DOMAIN batches : /\ a.ns = batches[b].ns /\ a.first = batches[b].first
                                       /\ a.last = batches[b].last /\ a.by = b
          \/ \E q \in Reserved : /\ a.ns = NewBatch(q).ns /\ a.first = NewBatch(q).first
                                 /\ a.last = NewBatch(q).last /\ a.by = q
      BY DEF Allocations, Reserved
    <3>2. \/ \E b \in DOMAIN batches : /\ z.ns = batches[b].ns /\ z.first = batches[b].first
                                       /\ z.last = batches[b].last /\ z.by = b
          \/ \E q \in Reserved : /\ z.ns = NewBatch(q).ns /\ z.first = NewBatch(q).first
                                 /\ z.last = NewBatch(q).last /\ z.by = q
      BY DEF Allocations, Reserved
    <3>3. ASSUME NEW b \in DOMAIN batches, NEW q \in Reserved, batches[b].ns = NewBatch(q).ns
          PROVE  batches[b].last < NewBatch(q).first
      BY <2>4, <3>3
    <3>4. ASSUME NEW b \in DOMAIN batches, a.by = b, a.ns = batches[b].ns,
                 a.first = batches[b].first, a.last = batches[b].last
          PROVE  a.last < z.first \/ z.last < a.first
      BY <2>3, <2>6, <3>2, <3>3, <3>4
    <3>5. ASSUME NEW q \in Reserved, a.by = q, a.ns = NewBatch(q).ns,
                 a.first = NewBatch(q).first, a.last = NewBatch(q).last
          PROVE  a.last < z.first \/ z.last < a.first
      BY <2>5, <2>6, <3>2, <3>3, <3>5
    <3> QED  BY <3>1, <3>4, <3>5
  <2>7. \A q, r \in Reserved :
           (OrgOf(q) = OrgOf(r)) = (requests[q].space.ns = requests[r].space.ns)
    <3> SUFFICES ASSUME NEW q \in Reserved, NEW r \in Reserved
                 PROVE  (OrgOf(q) = OrgOf(r)) <=> (requests[q].space.ns = requests[r].space.ns)
      OBVIOUS
    <3>1. CASE q = r
      BY <3>1
    <3>2. CASE q # r
      BY <2>5, <3>2
    <3> QED  BY <3>1, <3>2
  <2> QED  BY <2>6, <2>7 DEF AllocationsNeverCollide
<1> QED  BY <1>1, IInvAlways, PTL

\* A token as the tables have it, and the serial it leads back to.
LEMMA TokenTables ==
    ASSUME NEW version \in Versions, NEW ns \in 1..MaxNamespace, NEW serial \in 1..Capacity
    PROVE  SerialOf[version][ns][TokenOf[version][ns][serial]] = serial
<1>1. TokenOf[version][ns][serial] = EncryptToken(version, ns, serial)
  BY DEF TokenOf
<1>2. /\ EncryptToken(version, ns, serial) \in 0..Capacity
      /\ DecryptToken(version, ns, EncryptToken(version, ns, serial)) = serial
  <2>1. serial \in 0..Capacity
    BY SizesPositive
  <2> QED  BY <2>1, TokenLeadsBack
<1> DEFINE token == EncryptToken(version, ns, serial)
<1> HIDE DEF token
<1>3. ASSUME token \in 0..Capacity
      PROVE  SerialOf[version][ns][token] = DecryptToken(version, ns, token)
  BY <1>3 DEF SerialOf
<1> QED  BY <1>1, <1>2, <1>3 DEF token

\* The token of every code ever made reads back under the version of the key it was made
\* with, however often the key was rotated since, at the real sizes of the halves (1,000 and
\* 10,000) and for any digest, where a run can only take small ones.
THEOREM TokensLeadBack == Spec => []TokensReadBack
<1>1. ASSUME IInv PROVE TokensReadBack
  <2> SUFFICES ASSUME NEW b \in DOMAIN batches, NEW serial \in batches[b].first..batches[b].last
               PROVE  SerialOf[batches[b].version][batches[b].ns]
                              [TokenOf[batches[b].version][batches[b].ns][serial]] = serial
    BY DEF TokensReadBack
  <2>1. /\ batches[b].version \in Versions /\ batches[b].ns \in 1..MaxNamespace
        /\ batches[b].first \in 1..Capacity /\ batches[b].last \in 1..Capacity
    BY <1>1 DEF IInv, Wellformed, GenType, BatchRow
  <2>2. serial \in 1..Capacity
    BY <2>1, SizesPositive
  <2> QED  BY <2>1, <2>2, TokenTables
<1> QED  BY <1>1, IInvAlways, PTL

\* Whatever requests overlap and whatever fails, the unique index on namespace and token
\* refuses nothing as long as a namespace has codes of one version of the key only: serials
\* are never given out twice, and under one key two serials never have one token.
THEOREM OneKeyNeverMeets == Spec => []OnlyRotationsRefuse
<1>1. ASSUME IInv PROVE OnlyRotationsRefuse
  <2> SUFFICES ASSUME NEW q \in Reserved, NEW b \in DOMAIN batches,
                      batches[b].ns = NewBatch(q).ns, batches[b].version = NewBatch(q).version,
                      NEW token \in Tokens(batches[b]) \cap Tokens(NewBatch(q))
               PROVE  FALSE
    BY DEF OnlyRotationsRefuse
  <2> DEFINE v == batches[b].version  ns == batches[b].ns
             next == requests[q].space.next  end == (next + requests[q].quantity) - 1
  <2>1. /\ NewBatch(q).ns = requests[q].space.ns /\ NewBatch(q).first = next
        /\ NewBatch(q).last = end
    BY DEF NewBatch
  <2>2. PICK s \in batches[b].first..batches[b].last : token = TokenOf[v][ns][s]
    BY DEF Tokens
  <2>3. PICK t \in next..end : token = TokenOf[v][ns][t]
    BY <2>1 DEF Tokens
  <2>4. /\ v \in Versions /\ ns \in 1..MaxNamespace
        /\ batches[b].first \in 1..Capacity /\ batches[b].last \in 1..Capacity
    BY <1>1 DEF IInv, Wellformed, GenType, BatchRow
  <2>5. q \in Requests /\ Busy(q) /\ requests[q] \in RequestRow /\ requests[q].stage = "reserved"
    BY <1>1 DEF IInv, Wellformed, GenType, Reserved, Busy
  <2>6. next \in Nat \ {0} /\ requests[q].quantity \in Nat /\ end <= Capacity
    <3>1. next \in Nat \ {0}
      BY <2>5, SizesPositive DEF RequestRow, SpaceRow
    <3>2. requests[q].quantity \in Nat /\ next + requests[q].quantity <= Capacity + 1
      BY <1>1, <2>5, SizesPositive DEF IInv, Wellformed, RequestHolds
    <3> QED  BY <3>1, <3>2, SizesPositive
  <2>7. s \in 1..Capacity /\ t \in 1..Capacity /\ s <= batches[b].last /\ next <= t
    <3>1. s \in 1..Capacity /\ s <= batches[b].last
      BY <2>2, <2>4, SizesPositive
    <3>2. end \in Nat
      BY <2>6
    <3> HIDE DEF next, end
    <3>3. t \in 1..Capacity /\ next <= t
      BY <2>3, <2>6, <3>2, SizesPositive
    <3> QED  BY <3>1, <3>3
  <2>8. s = t
    <3>1. SerialOf[v][ns][TokenOf[v][ns][s]] = s
      BY <2>4, <2>7, TokenTables
    <3>2. SerialOf[v][ns][TokenOf[v][ns][t]] = t
      <4> HIDE DEF next, end
      <4> QED  BY <2>4, <2>7, TokenTables
    <3> QED  BY <2>2, <2>3, <3>1, <3>2
  <2>9. batches[b].last < next
    BY <1>1, <2>1, ReservedAbove
  <2> QED  BY <2>4, <2>6, <2>7, <2>8, <2>9, SizesPositive
<1> QED  BY <1>1, IInvAlways, PTL

-----------------------------------------------------------------------------
(* Products and inventory: who has a row locked, and what a row in hand    *)
(* says of a review.                                                       *)

\* Somebody approved the product, or it was inserted to hold batches.
Cleared(p) == p \in reviewed \/ origin[p] = "inserted"

\* A row is of an id in use, and one that is active, or will be when it leaves the archive,
\* is of a product that is cleared.
RowCleared(p, row) ==
    row.present => /\ origin[p] # None
                   /\ "active" \in {row.status, row.prev} => Cleared(p)

ProductsCleared == \A p \in Products : RowCleared(p, products[p])

\* What is going to be saved was cleared or is the review, and a row that is locked stays
\* as it was read, or is not there before the commit.
RequestTrades(q) ==
    LET r == requests[q]  p == r.product IN
    /\ Busy(q) /\ r.fresh => holder[p] = q /\ ~products[p].present
    /\ r.stage = "read" /\ r.row.present =>
          /\ origin[p] # None
          /\ "active" \in {r.row.status, r.row.prev} => r.approves \/ Cleared(p)
    /\ r.stage \in {"locked", "reserved"} =>
          /\ holder[p] = q /\ r.row.status = "active"
          /\ ~r.fresh => products[p].present /\ products[p] = r.row

\* A confirmation that is going to commit is alone with its claim, batch and product.
DealTrades(u) ==
    LET d == dealings[u]  b == d.claim.batch  p == d.claim.product IN
    /\ d.stage \notin {"idle", "bound"} => ~d.claim.consumed
    /\ d.stage = "bound" =>
          /\ Available(b) /\ batches[b].status = "allocated" /\ claims[d.c].batch = b
          /\ holder[p] = u /\ products[p] = d.row /\ d.row.present /\ d.row.status = "active"
          /\ batches[b].product = p => d.old = d.row
          /\ RowCleared(batches[b].product, d.old)
          /\ \A v \in Claimants \ {u} : dealings[v].stage = "bound" =>
                dealings[v].c # d.c /\ dealings[v].claim.batch # b

Trades ==
    /\ ProductsCleared
    /\ \A q \in Requests : RequestTrades(q)
    /\ \A u \in Claimants : DealTrades(u)

\* What is said of an id stays true: reviews and insertions are not taken back.
OriginsKept ==
    \A p \in Products : /\ origin[p] # None => origin'[p] # None
                        /\ Cleared(p) => Cleared(p)'

LEMMA ActorsApart ==
    /\ \A q \in Requests : q \notin Claimants /\ q # None
    /\ \A u \in Claimants : u \notin Requests /\ u # None
  BY OpenMarketAssumption

\* Requests that take no part in a step which leaves the rows they have locked alone.
LEMMA OtherRequests ==
    ASSUME Wellformed, Trades, NEW a,
           \A p \in Products : holder[p] \notin {a, None} =>
               holder'[p] = holder[p] /\ products'[p] = products[p],
           \A r \in Requests \ {a} : requests'[r] = requests[r],
           OriginsKept
    PROVE  \A r \in Requests \ {a} : RequestTrades(r)'
<1> SUFFICES ASSUME NEW r \in Requests \ {a} PROVE RequestTrades(r)'
  OBVIOUS
<1>1. requests'[r] = requests[r] /\ RequestTrades(r) /\ RequestHolds(r) /\ r # None
  BY ActorsApart DEF Trades, Wellformed
<1>2. Busy(r)' = Busy(r)
  BY <1>1 DEF Busy
<1>3. requests[r].stage \in {"locked", "reserved"} =>
         /\ holder'[requests[r].product] = r
         /\ products'[requests[r].product] = products[requests[r].product]
  BY <1>1 DEF RequestTrades, RequestHolds
<1>4. Busy(r) /\ requests[r].fresh =>
         /\ holder'[requests[r].product] = r
         /\ products'[requests[r].product] = products[requests[r].product]
  BY <1>1 DEF RequestTrades, RequestHolds, Busy
<1>5. requests[r].stage = "read" => requests[r].product \in Products
  BY <1>1 DEF RequestHolds
<1> QED  BY <1>1, <1>2, <1>3, <1>4, <1>5 DEF RequestTrades, OriginsKept

\* Dealings that take no part in a step which leaves alone what they have locked.
LEMMA OtherDealings ==
    ASSUME Wellformed, Trades, NEW a,
           \A p \in Products : holder[p] \notin {a, None} =>
               holder'[p] = holder[p] /\ products'[p] = products[p],
           \A v \in Claimants \ {a} : dealings'[v] = dealings[v],
           \A v \in Claimants \ {a} : dealings[v].stage = "bound" =>
               /\ dealings[v].claim.batch \in DOMAIN batches'
               /\ batches'[dealings[v].claim.batch] = batches[dealings[v].claim.batch]
               /\ claims'[dealings[v].c].batch = claims[dealings[v].c].batch,
           OriginsKept,
           a \in Claimants /\ dealings'[a].stage = "bound" =>
               \A v \in Claimants \ {a} : dealings[v].stage = "bound" =>
                   /\ dealings'[a].c # dealings[v].c
                   /\ dealings'[a].claim.batch # dealings[v].claim.batch
    PROVE  \A v \in Claimants \ {a} : DealTrades(v)'
<1> SUFFICES ASSUME NEW v \in Claimants \ {a} PROVE DealTrades(v)'
  OBVIOUS
<1> DEFINE d == dealings[v]  b == d.claim.batch  p == d.claim.product
<1>1. dealings'[v] = d /\ DealTrades(v) /\ DealingHolds(v) /\ v # None
  BY ActorsApart DEF Trades, Wellformed
<1>2. CASE d.stage # "bound"
  BY <1>1, <1>2 DEF DealTrades
<1>3. CASE d.stage = "bound"
  <2>1. /\ Available(b) /\ batches[b].status = "allocated" /\ claims[d.c].batch = b
        /\ holder[p] = v /\ products[p] = d.row /\ d.row.present /\ d.row.status = "active"
        /\ batches[b].product = p => d.old = d.row
        /\ p \in Products /\ RowCleared(batches[b].product, d.old)
    BY <1>1, <1>3 DEF DealTrades, DealingHolds
  <2>2. holder'[p] = v /\ products'[p] = products[p]
    BY <1>1, <2>1
  <2>3. b \in DOMAIN batches' /\ batches'[b] = batches[b] /\ claims'[d.c].batch = b
    BY <1>3, <2>1
  <2>4. Available(b)'
    BY <2>1, <2>3 DEF Available
  <2>5. ASSUME NEW w \in Claimants \ {v}, dealings'[w].stage = "bound"
        PROVE  dealings'[w].c # d.c /\ dealings'[w].claim.batch # b
    <3>1. CASE w = a
      BY <1>3, <2>5, <3>1
    <3>2. CASE w # a
      BY <1>1, <1>3, <2>5, <3>2 DEF DealTrades
    <3> QED  BY <3>1, <3>2
  <2>6. RowCleared(batches[b].product, d.old)'
    <3>1. batches[b].product \in Products
      BY <2>1 DEF Available, Wellformed, GenType, BatchRow
    <3> QED  BY <1>1, <2>1, <2>3, <3>1 DEF RowCleared, OriginsKept
  <2> QED  BY <1>1, <1>3, <2>1, <2>2, <2>3, <2>4, <2>5, <2>6 DEF DealTrades
<1> QED  BY <1>2, <1>3

\* A request moves on, or ends, and changes nothing but whose its product's row is.
LEMMA RequestMoves ==
    ASSUME Wellformed, Trades, NEW q \in Requests, NEW row,
           requests' = [requests EXCEPT ![q] = row],
           UNCHANGED <<products, batches, reviewed, origin, claims, dealings>>,
           \A p \in Products : holder[p] \notin {q, None} => holder'[p] = holder[p],
           RequestTrades(q)'
    PROVE  Trades'
<1>1. \A r \in Requests \ {q} : requests'[r] = requests[r]
  BY DEF Wellformed, GenType
<1>o. OriginsKept
  BY DEF OriginsKept, Cleared
<1>2. \A r \in Requests \ {q} : RequestTrades(r)'
  BY <1>1, <1>o, OtherRequests
<1>3. \A v \in Claimants \ {q} : DealTrades(v)'
  <2>1. \A v \in Claimants \ {q} : dealings[v].stage = "bound" =>
           dealings[v].claim.batch \in DOMAIN batches'
    BY DEF Wellformed, DealingHolds
  <2> QED  BY <1>o, <2>1, ActorsApart, OtherDealings
<1>4. ProductsCleared'
  BY DEF Trades, ProductsCleared, RowCleared, Cleared
<1> QED  BY <1>2, <1>3, <1>4, ActorsApart DEF Trades

LEMMA RequestStops ==
    ASSUME Wellformed, Trades, NEW q \in Requests,
           requests' = [requests EXCEPT ![q] = Idle],
           UNCHANGED <<products, batches, reviewed, origin, claims, dealings>>,
           \A p \in Products : holder[p] \notin {q, None} => holder'[p] = holder[p]
    PROVE  Trades'
<1>1. requests'[q] = Idle
  BY DEF Wellformed, GenType
<1>2. RequestTrades(q)'
  BY <1>1, Constants DEF RequestTrades, Busy
<1> QED  BY <1>2, RequestMoves

LEMMA InitTrades == Init => Trades
<1> SUFFICES ASSUME Init PROVE Trades
  OBVIOUS
<1>1. ProductsCleared
  BY DEF Init, GenInit, NoProduct, NewProduct, ProductsCleared, RowCleared
<1>3. \A q \in Requests : RequestTrades(q)
  BY Constants DEF Init, GenInit, RequestTrades, Busy
<1>4. \A u \in Claimants : DealTrades(u)
  BY Constants DEF Init, DealTrades
<1> QED  BY <1>1, <1>3, <1>4 DEF Trades

\* A new product, pending or inserted for a batch, is one that no request has locked.
LEMMA InsertTrades ==
    ASSUME Wellformed, Trades, NEW p \in Products, NEW row \in ProductRow,
           NEW by \in Origins, Insert(p, row, by), UNCHANGED <<claims, sent, dealings>>,
           "active" \in {row.status, row.prev} => by = "inserted"
    PROVE  Trades'
<1>1. /\ products' = [products EXCEPT ![p] = row] /\ origin' = [origin EXCEPT ![p] = by]
      /\ UNCHANGED <<batches, holder, requests, reviewed>>
      /\ origin[p] = None /\ holder[p] = None
      /\ products \in [Products -> ProductRow] /\ origin \in [Products -> Origins \cup {None}]
  BY DEF Insert, New, Wellformed, GenType
<1>2. /\ products'[p] = row /\ origin'[p] = by
      /\ \A o \in Products \ {p} : products'[o] = products[o] /\ origin'[o] = origin[o]
  BY <1>1
<1>o. OriginsKept
  <2>1. None # "inserted" /\ by # None
    BY GenerationAssumption DEF Origins
  <2> QED  BY <1>1, <1>2, <2>1 DEF OriginsKept, Cleared
<1>3. ProductsCleared'
  <2> SUFFICES ASSUME NEW o \in Products PROVE RowCleared(o, products[o])'
    BY DEF ProductsCleared
  <2>1. CASE o = p
    BY <1>2, <2>1, GenerationAssumption DEF RowCleared, Cleared, Origins
  <2>2. CASE o # p
    BY <1>1, <1>2, <2>2 DEF Trades, ProductsCleared, RowCleared, Cleared
  <2> QED  BY <2>1, <2>2
<1>4. \A o \in Products : holder[o] \notin {None} =>
         holder'[o] = holder[o] /\ products'[o] = products[o]
  BY <1>1, <1>2
<1>5. \A q \in Requests : RequestTrades(q)'
  BY <1>1, <1>4, <1>o, ActorsApart, OtherRequests
<1>6. \A u \in Claimants : DealTrades(u)'
  <2>1. \A v \in Claimants : dealings[v].stage = "bound" => dealings[v].claim.batch \in DOMAIN batches'
    BY <1>1 DEF Wellformed, DealingHolds
  <2> QED  BY <1>1, <1>4, <1>o, <2>1, ActorsApart, OtherDealings
<1> QED  BY <1>3, <1>5, <1>6 DEF Trades

LEMMA NewTrades ==
    ASSUME Wellformed, Trades, NEW p \in Products,
           Create(p) \/ \E key \in Keys : RepeatAssigned(p, key), UNCHANGED <<claims, sent, dealings>>
    PROVE  Trades'
<1>1. None # "active"
  BY GenerationAssumption DEF Statuses
<1>2. CASE Create(p)
  <2>1. PICK holding \in BOOLEAN : Insert(p, NewProduct("pending", holding), "created")
    BY <1>2 DEF Create
  <2> DEFINE row == NewProduct("pending", holding)
  <2>2. row \in ProductRow /\ row.status = "pending" /\ row.prev = None
    BY Constants DEF Statuses, NewProduct
  <2> HIDE DEF row
  <2> QED  BY <1>1, <2>1, <2>2, InsertTrades DEF Origins, row
<1>3. ASSUME NEW key \in Keys, RepeatAssigned(p, key) PROVE Trades'
  <2>1. NewProduct("active", TRUE) \in ProductRow
    BY Constants DEF Statuses
  <2> QED  BY <1>1, <1>3, <2>1, InsertTrades DEF Origins, RepeatAssigned
<1> QED  BY <1>2, <1>3

LEMMA RecallTrades ==
    ASSUME Wellformed, Trades, NEW p \in Products, Recall(p), UNCHANGED <<claims, sent, dealings>>
    PROVE  Trades'
<1>1. /\ products' = [products EXCEPT ![p].status = "recalled"] /\ holder[p] = None
      /\ UNCHANGED <<batches, holder, requests, reviewed, origin>>
      /\ products \in [Products -> ProductRow] /\ products[p].present
  BY DEF Recall, Wellformed, GenType
<1>2. /\ products'[p].present /\ products'[p].status = "recalled"
      /\ products'[p].prev = products[p].prev
      /\ \A o \in Products \ {p} : products'[o] = products[o]
  BY <1>1 DEF ProductRow
<1>o. OriginsKept
  BY <1>1 DEF OriginsKept, Cleared
<1>3. ProductsCleared'
  BY <1>1, <1>2 DEF Trades, ProductsCleared, RowCleared, Cleared
<1>4. \A o \in Products : holder[o] \notin {None} =>
         holder'[o] = holder[o] /\ products'[o] = products[o]
  BY <1>1, <1>2
<1>5. \A q \in Requests : RequestTrades(q)'
  BY <1>1, <1>4, <1>o, ActorsApart, OtherRequests
<1>6. \A u \in Claimants : DealTrades(u)'
  <2>1. \A v \in Claimants : dealings[v].stage = "bound" => dealings[v].claim.batch \in DOMAIN batches'
    BY <1>1 DEF Wellformed, DealingHolds
  <2> QED  BY <1>1, <1>4, <1>o, <2>1, ActorsApart, OtherDealings
<1> QED  BY <1>3, <1>5, <1>6 DEF Trades

\* An organisation's edit makes no row active that was not, or was not before the archive.
LEMMA EditsActive ==
    ASSUME NEW row \in ProductRow, NEW new \in VendorEdits(row), "active" \in {new.status, new.prev}
    PROVE  "active" \in {row.status, row.prev}
<1>1. None # "active"
  BY GenerationAssumption DEF Statuses
<1>2. Restored(row) = "active" => row.prev = "active"
  BY DEF Restored
<1>3. \/ new = [row EXCEPT !.prev = row.status, !.status = "archived"]
      \/ new = [row EXCEPT !.status = Restored(row), !.prev = None]
      \/ \E h \in BOOLEAN : \/ new = [row EXCEPT !.holding = h]
                            \/ new = [row EXCEPT !.status = "pending", !.holding = h]
  BY EditsAre
<1> QED  BY <1>1, <1>2, <1>3 DEF ProductRow

\* Only a review makes active what is not cleared.
LEMMA EditsReviewed ==
    ASSUME Wellformed, Trades, NEW p \in Products, products[p].present,
           NEW new \in VendorEdits(products[p]) \cup Removals(products[p]) \cup Reviews(products[p]),
           new.present /\ "active" \in {new.status, new.prev}
    PROVE  Cleared(p) \/ (new \in Reviews(products[p]) /\ new.status = "active")
<1> DEFINE row == products[p]
<1>1. row \in ProductRow /\ ("active" \in {row.status, row.prev} => Cleared(p))
  BY DEF Wellformed, GenType, Trades, ProductsCleared, RowCleared
<1>2. CASE new \in VendorEdits(row)
  BY <1>1, <1>2, EditsActive
<1>3. CASE new \in Removals(row)
  BY <1>3 DEF Removals, When, NoProduct, NewProduct
<1>4. CASE new \in Reviews(row)
  BY <1>1, <1>4 DEF Reviews, ProductRow
<1> QED  BY <1>2, <1>3, <1>4

LEMMA ReadTrades ==
    ASSUME Wellformed, Trades, NEW q \in Requests, NEW p \in Products,
           VendorReads(q, p) \/ ReviewerReads(q, p), UNCHANGED <<claims, sent, dealings>>
    PROVE  Trades'
<1>1. PICK new \in VendorEdits(products[p]) \cup Removals(products[p]) \cup Reviews(products[p]),
           approves \in BOOLEAN :
         /\ Open(q, p, new, approves) /\ products[p].present
         /\ new.present /\ "active" \in {new.status, new.prev} => approves \/ Cleared(p)
  <2>1. CASE VendorReads(q, p)
    <3>1. PICK new \in VendorEdits(products[p]) \cup Removals(products[p]) :
             Open(q, p, new, FALSE) /\ products[p].present
      BY <2>1 DEF VendorReads
    <3>2. ASSUME new.present, "active" \in {new.status, new.prev} PROVE Cleared(p)
      <4>1. products[p] \in ProductRow
        BY DEF Wellformed, GenType
      <4>2. CASE new \in VendorEdits(products[p])
        BY <3>1, <3>2, <4>1, <4>2, EditsActive DEF Trades, ProductsCleared, RowCleared
      <4>3. CASE new \in Removals(products[p])
        BY <3>2, <4>3 DEF Removals, When, NoProduct, NewProduct
      <4> QED  BY <4>2, <4>3
    <3> QED  BY <3>1, <3>2
  <2>2. CASE ReviewerReads(q, p)
    <3>1. PICK new \in Reviews(products[p]) :
             Open(q, p, new, new.status = "active") /\ products[p].present
      BY <2>2 DEF ReviewerReads
    <3>2. ASSUME new.present, "active" \in {new.status, new.prev}
          PROVE  new.status = "active" \/ Cleared(p)
      BY <3>1, <3>2, EditsReviewed
    <3> QED  BY <3>1, <3>2
  <2> QED  BY <2>1, <2>2
<1> DEFINE row == [Idle EXCEPT !.stage = "read", !.product = p, !.row = new, !.approves = approves]
<1>2. row.stage = "read" /\ row.product = p /\ row.row = new /\ row.approves = approves
  BY DEF Idle
<1>3. requests' = [requests EXCEPT ![q] = row] /\ UNCHANGED <<products, batches, reviewed, holder, origin>>
  BY <1>1 DEF Open
<1>4. requests'[q] = row
  BY <1>3 DEF Wellformed, GenType
<1> HIDE DEF row
<1>5. RequestTrades(q)'
  <2>1. origin[p] # None
    BY <1>1 DEF Trades, ProductsCleared, RowCleared
  <2> QED  BY <1>1, <1>2, <1>3, <1>4, <2>1 DEF RequestTrades, Busy, Cleared
<1> QED  BY <1>3, <1>5, RequestMoves

LEMMA SaveTrades ==
    ASSUME Wellformed, Trades, NEW q \in Requests, Save(q), UNCHANGED <<claims, sent, dealings>>
    PROVE  Trades'
<1> DEFINE r == requests[q]  p == r.product
<1>1. /\ r.stage = "read" /\ holder[p] = None /\ p \in Products
      /\ r.row.present =>
            /\ origin[p] # None
            /\ "active" \in {r.row.status, r.row.prev} => r.approves \/ Cleared(p)
      /\ UNCHANGED <<holder, batches, origin>> /\ requests' = [requests EXCEPT ![q] = Idle]
      /\ products' = products \/ products' = [products EXCEPT ![p] = r.row]
      /\ reviewed' = IF r.approves THEN reviewed \cup {p} ELSE reviewed
  BY DEF Save, Wellformed, RequestHolds, Trades, RequestTrades
<1>2. /\ \A o \in Products \ {p} : products'[o] = products[o]
      /\ products'[p] \in {products[p], r.row}
      /\ requests'[q] = Idle /\ \A s \in Requests \ {q} : requests'[s] = requests[s]
  BY <1>1 DEF Wellformed, GenType
<1>3. reviewed \subseteq reviewed' /\ (r.approves => p \in reviewed')
  BY <1>1
<1>o. OriginsKept
  BY <1>1, <1>3 DEF OriginsKept, Cleared
<1>4. ProductsCleared'
  <2> SUFFICES ASSUME NEW o \in Products PROVE RowCleared(o, products[o])'
    BY DEF ProductsCleared
  <2>1. CASE products'[o] = products[o]
    BY <1>1, <1>3, <2>1 DEF Trades, ProductsCleared, RowCleared, Cleared
  <2>2. CASE o = p /\ products'[p] = r.row
    BY <1>1, <1>3, <2>2 DEF RowCleared, Cleared
  <2> QED  BY <1>2, <2>1, <2>2
<1>6. \A o \in Products : holder[o] \notin {q, None} =>
         holder'[o] = holder[o] /\ products'[o] = products[o]
  BY <1>1, <1>2
<1>7. \A s \in Requests \ {q} : RequestTrades(s)'
  BY <1>2, <1>6, <1>o, OtherRequests
<1>8. RequestTrades(q)'
  BY <1>2, Constants DEF RequestTrades, Busy
<1>9. \A v \in Claimants \ {q} : DealTrades(v)'
  <2>1. \A v \in Claimants : dealings[v].stage = "bound" => dealings[v].claim.batch \in DOMAIN batches'
    BY <1>1 DEF Wellformed, DealingHolds
  <2> QED  BY <1>1, <1>6, <1>o, <2>1, ActorsApart, OtherDealings
<1> QED  BY <1>4, <1>7, <1>8, <1>9, ActorsApart DEF Trades

LEMMA StartTrades ==
    ASSUME Wellformed, Trades, NEW q \in Requests, NEW p \in Products, NEW key \in Keys,
           NEW quantity \in Quantities,
           GenerateOwn(q, p, key, quantity) \/ GenerateAssigned(q, p, key, quantity)
              \/ GenerateOpen(q, p, key, quantity),
           UNCHANGED <<claims, sent, dealings>>
    PROVE  Trades'
<1>1. PICK open \in BOOLEAN, assigned \in BOOLEAN, fresh \in BOOLEAN :
         Start(q, p, key, quantity, open, assigned, fresh) /\ (fresh => New(p))
  <2>1. CASE GenerateOwn(q, p, key, quantity)
    BY <2>1 DEF GenerateOwn
  <2>2. CASE GenerateAssigned(q, p, key, quantity)
    BY <2>2 DEF GenerateAssigned, Resolves
  <2>3. CASE GenerateOpen(q, p, key, quantity)
    BY <2>3 DEF GenerateOpen, Resolves
  <2> QED  BY <2>1, <2>2, <2>3
<1> DEFINE row == [Idle EXCEPT !.stage = "checked", !.open = open, !.assigned = assigned,
                              !.fresh = fresh, !.product = p, !.key = key,
                              !.quantity = quantity]
<1>2. row.stage = "checked" /\ row.product = p /\ row.fresh = fresh
  BY DEF Idle
<1>3. /\ requests' = [requests EXCEPT ![q] = row]
      /\ UNCHANGED <<products, batches, reviewed, origin>>
      /\ holder' = IF fresh THEN [holder EXCEPT ![p] = q] ELSE holder
  BY <1>1 DEF Start
<1>4. requests'[q] = row /\ (fresh => holder'[p] = q)
  BY <1>3 DEF Wellformed, GenType
<1>5. fresh => holder[p] = None /\ ~products[p].present
  BY <1>1 DEF New, Trades, ProductsCleared, RowCleared
<1> HIDE DEF row
<1>6. RequestTrades(q)'
  BY <1>2, <1>3, <1>4, <1>5 DEF RequestTrades
<1>7. \A o \in Products : holder[o] \notin {q, None} => holder'[o] = holder[o]
  BY <1>3, <1>5 DEF Wellformed, GenType
<1> QED  BY <1>3, <1>6, <1>7, RequestMoves

LEMMA LockTrades ==
    ASSUME Wellformed, Trades, NEW q \in Requests, LockProduct(q), UNCHANGED <<claims, sent, dealings>>
    PROVE  Trades'
<1> DEFINE r == requests[q]  p == r.product
           row == IF r.fresh THEN NewProduct("active", TRUE) ELSE products[p]
           new == [r EXCEPT !.stage = "locked", !.row = row]
<1>1. /\ r.stage = "checked" /\ holder[p] \in {q, None} /\ p \in Products
      /\ r.fresh => holder[p] = q /\ ~products[p].present
      /\ UNCHANGED <<products, spaces, sequence, batches, reviewed, origin>>
  BY DEF LockProduct, RowFree, Wellformed, RequestHolds, Trades, RequestTrades, Busy
<1>2. CASE row.present /\ row.status = "active"
  <2>1. requests' = [requests EXCEPT ![q].stage = "locked", ![q].row = row]
        /\ holder' = [holder EXCEPT ![p] = q]
    BY <1>2 DEF LockProduct
  <2>2. requests' = [requests EXCEPT ![q] = new] /\ requests'[q] = new
        /\ holder'[p] = q /\ \A o \in Products \ {p} : holder'[o] = holder[o]
    BY <1>1, <2>1 DEF Wellformed, GenType
  <2>3. new.stage = "locked" /\ new.row = row /\ new.product = p /\ new.fresh = r.fresh
    BY DEF Wellformed, GenType, RequestRow
  <2>4. ~r.fresh => products[p].present /\ products[p] = row
    BY <1>2
  <2> HIDE DEF new, row
  <2>5. RequestTrades(q)'
    BY <1>1, <1>2, <2>2, <2>3, <2>4 DEF RequestTrades
  <2> QED  BY <1>1, <2>2, <2>5, RequestMoves
<1>3. CASE ~(row.present /\ row.status = "active")
  <2>1. requests' = [requests EXCEPT ![q] = Idle] /\ UNCHANGED holder
    BY <1>3 DEF LockProduct
  <2> QED  BY <1>1, <2>1, RequestStops
<1> QED  BY <1>2, <1>3

LEMMA ReserveTrades ==
    ASSUME Wellformed, Trades, NEW q \in Requests, Reserve(q), UNCHANGED <<claims, sent, dealings>>
    PROVE  Trades'
<1> DEFINE r == requests[q]  p == r.product
<1>1. /\ r.stage = "locked" /\ holder[p] = q /\ p \in Products /\ r \in RequestRow
      /\ UNCHANGED <<products, batches, reviewed, origin>> /\ RequestTrades(q)
  BY DEF Reserve, Wellformed, GenType, RequestHolds, Trades, RequestTrades
<1>2. \/ /\ requests' = [requests EXCEPT ![q] = Idle]
         /\ holder' = [holder EXCEPT ![p] = None]
      \/ \E space, version :
            /\ requests' = [requests EXCEPT ![q].stage = "reserved", ![q].version = version,
                                            ![q].space = space]
            /\ UNCHANGED holder
  BY DEF Reserve
<1>3. CASE requests' = [requests EXCEPT ![q] = Idle] /\ holder' = [holder EXCEPT ![p] = None]
  <2>1. \A o \in Products : holder[o] \notin {q, None} => holder'[o] = holder[o]
    BY <1>1, <1>3 DEF Wellformed, GenType
  <2> QED  BY <1>1, <1>3, <2>1, RequestStops
<1>4. ASSUME NEW space, NEW version, UNCHANGED holder,
             requests' = [requests EXCEPT ![q].stage = "reserved", ![q].version = version,
                                          ![q].space = space]
      PROVE  Trades'
  <2> DEFINE new == [r EXCEPT !.stage = "reserved", !.version = version, !.space = space]
  <2>1. requests' = [requests EXCEPT ![q] = new] /\ requests'[q] = new
    BY <1>4 DEF Wellformed, GenType
  <2>2. new.stage = "reserved" /\ new.row = r.row /\ new.product = p /\ new.fresh = r.fresh
    BY <1>1 DEF RequestRow
  <2> HIDE DEF new
  <2>3. RequestTrades(q)'
    BY <1>1, <1>4, <2>1, <2>2 DEF RequestTrades, Busy
  <2> QED  BY <1>1, <1>4, <2>1, <2>3, RequestMoves
<1> QED  BY <1>2, <1>3, <1>4

LEMMA FailTrades ==
    ASSUME Wellformed, Trades, NEW q \in Requests, Fail(q), UNCHANGED <<claims, sent, dealings>>
    PROVE  Trades'
<1>1. \A o \in Products : holder[o] \notin {q, None} => holder'[o] = holder[o]
  BY DEF Fail, Wellformed, GenType
<1> QED  BY <1>1, RequestStops DEF Fail

\* What a commit does to the product, which was active and locked, and to the batches.
LEMMA CommitSells ==
    ASSUME Wellformed, Trades, NEW q \in Requests, Commit(q)
    PROVE  LET r == requests[q]  p == r.product IN
           /\ p \in Products /\ holder[p] = q /\ r.row \in ProductRow /\ r.row.status = "active"
           /\ ~r.fresh => products[p].present /\ products[p] = r.row
           /\ r.fresh => ~products[p].present
           /\ products'[p].status = "active" /\ products'[p].present = r.row.present
           /\ products'[p].prev = r.row.prev
           /\ \A o \in Products \ {p} : products'[o] = products[o] /\ holder'[o] = holder[o]
           /\ \E b \in Batches \ DOMAIN batches :
                 /\ DOMAIN batches' = DOMAIN batches \cup {b} /\ batches'[b] = NewBatch(q)
                 /\ \A a \in DOMAIN batches : batches'[a] = batches[a]
<1> DEFINE r == requests[q]  p == r.product
           row == [r.row EXCEPT !.total = r.row.total + r.quantity]
<1>1. /\ r.stage = "reserved" /\ r.row \in ProductRow /\ p \in Products /\ RequestTrades(q)
      /\ products \in [Products -> ProductRow]
  BY DEF Commit, Wellformed, GenType, RequestHolds, RequestRow, Trades
<1>2. products' = [products EXCEPT ![p] = row] /\ holder' = [holder EXCEPT ![p] = None]
  BY DEF Commit
<1>3. row.status = r.row.status /\ row.present = r.row.present /\ row.prev = r.row.prev
  BY <1>1 DEF ProductRow
<1> HIDE DEF row
<1>4. products'[p] = row /\ \A o \in Products \ {p} : products'[o] = products[o] /\ holder'[o] = holder[o]
  BY <1>1, <1>2 DEF Wellformed, GenType
<1> QED  BY <1>1, <1>3, <1>4, CommitAdds DEF RequestTrades, Busy

LEMMA CommitTrades ==
    ASSUME Wellformed, Trades, NEW q \in Requests, Commit(q), UNCHANGED <<claims, sent, dealings>>
    PROVE  Trades'
<1> DEFINE r == requests[q]  p == r.product
<1>1. /\ p \in Products /\ holder[p] = q /\ r.row.status = "active"
      /\ ~r.fresh => products[p].present /\ products[p] = r.row
      /\ products'[p].status = r.row.status /\ products'[p].prev = r.row.prev
      /\ \A o \in Products \ {p} : products'[o] = products[o] /\ holder'[o] = holder[o]
  BY CommitSells
<1>2. PICK b \in Batches \ DOMAIN batches :
         /\ DOMAIN batches' = DOMAIN batches \cup {b} /\ batches'[b] = NewBatch(q)
         /\ \A a \in DOMAIN batches : batches'[a] = batches[a]
  BY CommitSells
<1>3. /\ requests' = [requests EXCEPT ![q] = Idle] /\ UNCHANGED reviewed /\ Busy(q)
      /\ requests \in [Requests -> RequestRow]
  BY DEF Commit, Busy, Wellformed, GenType
<1>o. /\ r.fresh => origin'[p] = "inserted"
      /\ \A o \in Products : origin'[o] \in {origin[o], "inserted"}
      /\ "inserted" # None
  BY <1>1, GenerationAssumption DEF Commit, Wellformed, GenType, Origins
<1>4. OriginsKept
  BY <1>3, <1>o DEF OriginsKept, Cleared
<1>5. ProductsCleared'
  <2> SUFFICES ASSUME NEW o \in Products PROVE RowCleared(o, products[o])'
    BY DEF ProductsCleared
  <2>1. CASE r.fresh /\ o = p
    BY <1>o, <2>1 DEF RowCleared, Cleared
  <2>2. CASE ~(r.fresh /\ o = p)
    <3>1. RowCleared(o, products[o])
      BY DEF Trades, ProductsCleared
    <3>2. /\ products'[o].present => products[o].present
          /\ products'[o].status = products[o].status /\ products'[o].prev = products[o].prev
      BY <1>1, <2>2
    <3>3. (origin[o] # None => origin'[o] # None) /\ (Cleared(o) => Cleared(o)')
      BY <1>4 DEF OriginsKept
    <3> QED  BY <3>1, <3>2, <3>3 DEF RowCleared
  <2> QED  BY <2>1, <2>2
<1>6. \A o \in Products : holder[o] \notin {q, None} =>
         holder'[o] = holder[o] /\ products'[o] = products[o]
  BY <1>1
<1>7. requests'[q] = Idle /\ \A s \in Requests \ {q} : requests'[s] = requests[s]
  BY <1>3
<1>8. \A s \in Requests \ {q} : RequestTrades(s)'
  BY <1>4, <1>6, <1>7, OtherRequests
<1>9. RequestTrades(q)'
  BY <1>7, Constants DEF RequestTrades, Busy
<1>10. \A v \in Claimants \ {q} : DealTrades(v)'
  <2>1. \A v \in Claimants : dealings[v].stage = "bound" => dealings[v].claim.batch \in DOMAIN batches
    BY DEF Wellformed, DealingHolds
  <2>2. \A v \in Claimants : dealings[v].stage = "bound" =>
           /\ dealings[v].claim.batch \in DOMAIN batches'
           /\ batches'[dealings[v].claim.batch] = batches[dealings[v].claim.batch]
    BY <1>2, <2>1
  <2> QED  BY <1>4, <1>6, <2>2, ActorsApart, OtherDealings
<1> QED  BY <1>5, <1>8, <1>9, <1>10, ActorsApart DEF Trades

\* Claims and dealings that change neither products nor batches.
LEMMA DealMoves ==
    ASSUME Wellformed, Trades, NEW a,
           UNCHANGED <<products, batches, requests, reviewed, origin>>,
           \A p \in Products : holder[p] \notin {a, None} => holder'[p] = holder[p],
           a \notin Requests,
           \A v \in Claimants \ {a} : dealings'[v] = dealings[v],
           \A v \in Claimants \ {a} : dealings[v].stage = "bound" =>
               claims'[dealings[v].c].batch = claims[dealings[v].c].batch,
           a \in Claimants => DealTrades(a)'
    PROVE  Trades'
<1>o. OriginsKept
  BY DEF OriginsKept, Cleared
<1>1. \A r \in Requests : RequestTrades(r)'
  BY <1>o, OtherRequests
<1>2. a \in Claimants /\ dealings'[a].stage = "bound" =>
         \A v \in Claimants \ {a} : dealings[v].stage = "bound" =>
            /\ dealings'[a].c # dealings[v].c
            /\ dealings'[a].claim.batch # dealings[v].claim.batch
  BY DEF DealTrades
<1>3. \A v \in Claimants : dealings[v].stage = "bound" => dealings[v].claim.batch \in DOMAIN batches'
  BY DEF Wellformed, DealingHolds
<1>4. \A v \in Claimants \ {a} : DealTrades(v)'
  BY <1>o, <1>2, <1>3, OtherDealings
<1>5. ProductsCleared'
  BY DEF Trades, ProductsCleared, RowCleared, Cleared
<1> QED  BY <1>1, <1>4, <1>5 DEF Trades

\* The claim of a confirmation that is going to commit cannot be looked up anew.
LEMMA LookupTrades ==
    ASSUME Wellformed, Trades, NEW c \in Claims,
           (\E vendor \in Vendors, b \in Batches : Lookup(c, vendor, b)) \/ Expire(c)
    PROVE  Trades'
<1>1. UNCHANGED <<genVars, sent, dealings>> /\ claims \in [Claims -> ClaimRow]
  BY DEF Lookup, Expire, Wellformed, MarketType
<1>2. \A d \in Claims : claims[d].batch # None => claims'[d].batch = claims[d].batch
  <2>1. CASE Expire(c)
    BY <1>1, <2>1 DEF Expire, ClaimRow
  <2>2. ASSUME NEW vendor \in Vendors, NEW b \in Batches, Lookup(c, vendor, b)
        PROVE  \A d \in Claims : claims[d].batch # None => claims'[d].batch = claims[d].batch
    <3>1. NoClaim.batch = None
      BY DEF NoClaim
    <3>2. claims[c].batch = None
      BY <2>2, <3>1 DEF Lookup
    <3>3. PICK claim : claims' = [claims EXCEPT ![c] = claim]
      BY <2>2 DEF Lookup
    <3> QED  BY <1>1, <3>2, <3>3
  <2> QED  BY <2>1, <2>2
<1>3. \A v \in Claimants : dealings[v].stage = "bound" =>
         claims'[dealings[v].c].batch = claims[dealings[v].c].batch
  <2> SUFFICES ASSUME NEW v \in Claimants, dealings[v].stage = "bound"
               PROVE  claims'[dealings[v].c].batch = claims[dealings[v].c].batch
    OBVIOUS
  <2>1. /\ dealings[v].c \in Claims /\ dealings[v].claim.batch \in Batches
        /\ claims[dealings[v].c].batch = dealings[v].claim.batch
    BY DEF Wellformed, DealingHolds, Trades, DealTrades
  <2> QED  BY <1>2, <2>1, NoneApart
<1>4. None \notin Requests /\ None \notin Claimants
  BY OpenMarketAssumption
<1> QED  BY <1>1, <1>3, <1>4, DealMoves DEF genVars

LEMMA ReadsTrades ==
    ASSUME Wellformed, Trades, NEW u \in Claimants, NEW c \in Claims,
           (\E p \in Products : LinkReads(u, c, p)) \/ (\E code \in 0..MaxSent : VerifyReads(u, c, code))
    PROVE  Trades'
<1>1. PICK stage, claim : /\ stage \in {"linking", "wrong", "checked"}
                           /\ Deal(u, stage, c, claim) /\ ~claim.consumed
  <2>1. claims[c] \in ClaimRow
    BY DEF Wellformed, MarketType
  <2>2. ASSUME NEW p \in Products, LinkReads(u, c, p)
        PROVE  Deal(u, "linking", c, [claims[c] EXCEPT !.product = p, !.tries = 0, !.live = TRUE])
               /\ ~[claims[c] EXCEPT !.product = p, !.tries = 0, !.live = TRUE].consumed
    BY <2>1, <2>2 DEF LinkReads, ClaimRow
  <2>3. ASSUME NEW code \in 0..MaxSent, VerifyReads(u, c, code)
        PROVE  \E stage \in {"wrong", "checked"} :
                  Deal(u, stage, c, [claims[c] EXCEPT !.tries = claims[c].tries + 1])
                  /\ ~[claims[c] EXCEPT !.tries = claims[c].tries + 1].consumed
    BY <2>1, <2>3 DEF VerifyReads, ClaimRow
  <2> QED  BY <2>2, <2>3
<1> DEFINE d == [NoDealing EXCEPT !.stage = stage, !.c = c, !.claim = claim]
<1>2. d.stage = stage /\ d.claim = claim
  BY DEF NoDealing
<1>3. dealings' = [dealings EXCEPT ![u] = d] /\ UNCHANGED <<genVars, claims, sent>>
  BY <1>1 DEF Deal
<1>4. dealings'[u] = d /\ \A v \in Claimants \ {u} : dealings'[v] = dealings[v]
  BY <1>3 DEF Wellformed, MarketType
<1> HIDE DEF d
<1>5. DealTrades(u)'
  BY <1>1, <1>2, <1>4 DEF DealTrades
<1> QED  BY <1>3, <1>4, <1>5, ActorsApart, DealMoves DEF genVars

\* A dealing that ends changes no claim that is locked.
LEMMA DealEnds ==
    ASSUME Wellformed, Trades, NEW u \in Claimants, LinkSaves(u) \/ VerifyFails(u) \/ DealFails(u)
    PROVE  Trades'
<1>1. /\ UNCHANGED <<products, batches, requests, reviewed, origin>>
      /\ dealings' = [dealings EXCEPT ![u] = NoDealing]
  BY DEF LinkSaves, VerifyFails, SavesClaim, DealFails, genVars
<1>2. \A p \in Products : holder[p] \notin {u, None} => holder'[p] = holder[p]
  BY DEF LinkSaves, VerifyFails, SavesClaim, DealFails, genVars, Wellformed, GenType
<1>3. \A v \in Claimants \ {u} : dealings[v].stage = "bound" =>
         claims'[dealings[v].c].batch = claims[dealings[v].c].batch
  <2>1. CASE DealFails(u)
    BY <2>1 DEF DealFails
  <2>2. CASE LinkSaves(u) \/ VerifyFails(u)
    <3>1. PICK claim : SavesClaim(u, claim)
      BY <2>2 DEF LinkSaves, VerifyFails
    <3>2. \A v \in Claimants : dealings[v].stage = "bound" => dealings[v].c # dealings[u].c
      BY <3>1 DEF SavesClaim, ClaimFree
    <3>3. \A c \in Claims \ {dealings[u].c} : claims'[c] = claims[c]
      BY <3>1 DEF SavesClaim, Wellformed, MarketType
    <3>4. \A v \in Claimants : dealings[v].stage = "bound" => dealings[v].c \in Claims
      BY DEF Wellformed, DealingHolds
    <3> QED  BY <3>2, <3>3, <3>4
  <2> QED  BY <2>1, <2>2
<1>4. dealings'[u] = NoDealing /\ \A v \in Claimants \ {u} : dealings'[v] = dealings[v]
  BY <1>1 DEF Wellformed, MarketType
<1>5. DealTrades(u)'
  BY <1>4, Constants DEF DealTrades
<1> QED  BY <1>1, <1>2, <1>3, <1>4, <1>5, ActorsApart, DealMoves

\* Who locks a claim, its batch and its product finds nobody else there.
LEMMA LocksTrades ==
    ASSUME Wellformed, Trades, NEW u \in Claimants, VerifyLocks(u)
    PROVE  Trades'
<1> DEFINE e == dealings[u]  c == e.c  claim == claims[c]  b == claim.batch  p == claim.product
           kept == [claim EXCEPT !.tries = e.claim.tries, !.consumed = TRUE]
           old == products[batches[b].product]
           new == [e EXCEPT !.stage = "bound", !.row = products[p], !.old = old, !.claim = kept]
<1>1. /\ e \in DealingRow /\ e.stage = "checked" /\ c \in Claims /\ claim \in ClaimRow
      /\ p \in Products
      /\ UNCHANGED <<products, batches, requests, reviewed, origin, claims>>
      /\ RowsFree(c, b, p)
  BY DEF VerifyLocks, Wellformed, MarketType, DealingHolds, ClaimHolds, ClaimRow
<1>2. CASE /\ dealings' = [dealings EXCEPT ![u].stage = "bound", ![u].row = products[p],
                                          ![u].old = old, ![u].claim = kept]
           /\ holder' = [holder EXCEPT ![p] = u]
           /\ Available(b) /\ batches[b].status = "allocated"
           /\ products[p].present /\ products[p].status = "active"
  <2>0. /\ Available(b) /\ batches[b].status = "allocated"
        /\ products[p].present /\ products[p].status = "active"
    BY <1>2
  <2>1. dealings' = [dealings EXCEPT ![u] = new]
    BY <1>2 DEF Wellformed, MarketType
  <2>2. kept.batch = b /\ kept.product = p
    BY <1>1 DEF ClaimRow
  <2> HIDE DEF kept
  <2>3. /\ new.stage = "bound" /\ new.c = c /\ new.row = products[p] /\ new.old = old
        /\ new.claim = kept
    BY <1>1 DEF DealingRow
  <2> HIDE DEF new
  <2>4. dealings'[u] = new /\ \A v \in Claimants \ {u} : dealings'[v] = dealings[v]
    BY <2>1 DEF Wellformed, MarketType
  <2>5. holder[p] = None /\ holder'[p] = u /\ \A o \in Products \ {p} : holder'[o] = holder[o]
    BY <1>1, <1>2 DEF RowsFree, RowFree, Wellformed, GenType
  <2>6. ASSUME NEW v \in Claimants \ {u}, dealings'[v].stage = "bound"
        PROVE  dealings'[v].c # c /\ dealings'[v].claim.batch # b
    <3>1. dealings'[v] = dealings[v] /\ dealings[v].stage = "bound"
      BY <2>4, <2>6
    <3>2. dealings[v].c # c /\ claims[dealings[v].c].batch # b
      BY <1>1, <3>1 DEF RowsFree, ClaimFree
    <3> QED  BY <3>1, <3>2 DEF Trades, DealTrades
  <2>7. /\ batches' = batches /\ claims' = claims /\ products' = products
        /\ b \in DOMAIN batches /\ batches[b].open /\ batches[b].org = Platform
    BY <1>1, <2>0 DEF Available
  <2>8. DealTrades(u)'
    <3>1. dealings'[u].claim.batch = b /\ dealings'[u].claim.product = p
      BY <2>2, <2>3, <2>4
    <3>2. batches[b].product = p => dealings'[u].old = dealings'[u].row
      BY <2>3, <2>4
    <3>3. RowCleared(batches[b].product, old)
      <4>1. batches[b].product \in Products
        BY <2>7 DEF Wellformed, GenType, BatchRow
      <4> QED  BY <4>1 DEF Trades, ProductsCleared
    <3>4. LET row == dealings'[u].old  o == batches'[dealings'[u].claim.batch].product IN
          row.present =>
              /\ origin'[o] # None
              /\ "active" \in {row.status, row.prev} => o \in reviewed' \/ origin'[o] = "inserted"
      <4>1. dealings'[u].old = old /\ UNCHANGED <<reviewed, origin>>
        BY <1>1, <2>3, <2>4
      <4> QED  BY <2>7, <3>1, <3>3, <4>1 DEF RowCleared, Cleared
    <3> QED  BY <2>0, <2>3, <2>4, <2>5, <2>6, <2>7, <3>1, <3>2, <3>4
             DEF DealTrades, Available, RowCleared, Cleared
  <2> QED  BY <1>1, <2>4, <2>5, <2>8, ActorsApart, DealMoves
<1>3. CASE dealings' = [dealings EXCEPT ![u] = NoDealing] /\ UNCHANGED holder
  <2>1. dealings'[u] = NoDealing /\ \A v \in Claimants \ {u} : dealings'[v] = dealings[v]
    BY <1>3 DEF Wellformed, MarketType
  <2>2. DealTrades(u)'
    BY <2>1, Constants DEF DealTrades
  <2> QED  BY <1>1, <1>3, <2>1, <2>2, ActorsApart, DealMoves
<1> QED  BY <1>2, <1>3 DEF VerifyLocks

\* What a confirmation finds when it commits, and what it leaves.
LEMMA ConfirmSells ==
    ASSUME Wellformed, Trades, NEW u \in Claimants, VerifyCommits(u)
    PROVE  LET d == dealings[u]  b == d.claim.batch  p == d.claim.product
               old == batches[b].product IN
           /\ d.c \in Claims /\ p \in Products /\ old \in Products /\ b \in DOMAIN batches
           /\ d.claim.vendor \in Vendors
           /\ Available(b) /\ batches[b].status = "allocated" /\ claims[d.c].batch = b
           /\ holder[p] = u /\ holder[old] \in {None, u}
           /\ products[p].present /\ products[p].status = "active"
           /\ products'[p].present /\ products'[p].status = "active"
           /\ p # old => products'[p].prev = products[p].prev
           /\ RowCleared(old, products'[old])
           /\ \A o \in Products \ {p, old} : products'[o] = products[o]
           /\ \A o \in Products \ {p} : holder'[o] = holder[o]
           /\ DOMAIN batches' = DOMAIN batches
           /\ batches'[b].product = p /\ batches'[b].org = d.claim.vendor
           /\ \A a \in DOMAIN batches \ {b} : batches'[a] = batches[a]
           /\ \A c \in Claims \ {d.c} : claims'[c] = claims[c]
<1> DEFINE d == dealings[u]  b == d.claim.batch  p == d.claim.product
           old == batches[b].product
           quantity == (batches[b].last - batches[b].first) + 1
           gains == [d.row EXCEPT !.total = d.row.total + quantity]
           loses == IF d.old.present
                    THEN [d.old EXCEPT !.total = Minus(d.old.total, quantity)] ELSE products[old]
           sold == [batches[b] EXCEPT !.org = d.claim.vendor, !.product = p,
                                      !.status = "market_active"]
<1>1. /\ d.stage = "bound" /\ d \in DealingRow /\ d.row \in ProductRow /\ d.old \in ProductRow
      /\ d.c \in Claims /\ p \in Products /\ d.claim.vendor \in Vendors
      /\ Available(b) /\ batches[b].status = "allocated" /\ claims[d.c].batch = b
      /\ holder[p] = u /\ products[p] = d.row /\ d.row.present /\ d.row.status = "active"
      /\ old = p => d.old = d.row
      /\ RowCleared(old, d.old)
  BY DEF VerifyCommits, Wellformed, MarketType, DealingHolds, DealingRow, Trades, DealTrades
<1>2. b \in DOMAIN batches /\ batches[b] \in BatchRow /\ old \in Products
  BY <1>1 DEF Available, Wellformed, GenType, BatchRow
<1>3. /\ products' = [products EXCEPT ![p] = gains, ![old] = loses]
      /\ batches' = [batches EXCEPT ![b] = sold]
      /\ claims' = [claims EXCEPT ![d.c] = d.claim]
      /\ holder' = [holder EXCEPT ![p] = None] /\ holder[old] \in {None, u}
  BY DEF VerifyCommits
<1>4. gains.present /\ gains.status = "active" /\ gains.prev = products[p].prev
  BY <1>1 DEF ProductRow
<1>5. old = p => loses.present /\ loses.status = "active"
  BY <1>1 DEF ProductRow
<1>r. RowCleared(old, loses)
  <2>1. CASE d.old.present
    BY <1>1, <2>1 DEF RowCleared, ProductRow
  <2>2. CASE ~d.old.present
    BY <1>2, <2>2 DEF Trades, ProductsCleared
  <2> QED  BY <2>1, <2>2
<1>6. sold.product = p /\ sold.org = d.claim.vendor
  BY <1>2 DEF BatchRow
<1> HIDE DEF gains, loses, sold
<1>7. /\ products'[old] = loses /\ (p # old => products'[p] = gains)
      /\ \A o \in Products \ {p, old} : products'[o] = products[o]
      /\ \A o \in Products \ {p} : holder'[o] = holder[o]
  BY <1>1, <1>2, <1>3 DEF Wellformed, GenType
<1>8. /\ DOMAIN batches' = DOMAIN batches /\ batches'[b] = sold
      /\ \A a \in DOMAIN batches \ {b} : batches'[a] = batches[a]
      /\ \A c \in Claims \ {d.c} : claims'[c] = claims[c]
  BY <1>2, <1>3 DEF Wellformed, MarketType
<1>9. /\ products'[p].present /\ products'[p].status = "active"
      /\ p # old => products'[p].prev = products[p].prev
  BY <1>1, <1>4, <1>5, <1>7
<1>10. /\ batches'[b].product = p /\ batches'[b].org = d.claim.vendor
  BY <1>6, <1>8
<1>11. products[p].present /\ products[p].status = "active"
  BY <1>1
<1>12. RowCleared(old, products'[old])
  BY <1>r, <1>7
<1> QED  BY <1>1, <1>2, <1>3, <1>7, <1>8, <1>9, <1>10, <1>11, <1>12

LEMMA ConfirmTrades ==
    ASSUME Wellformed, Trades, NEW u \in Claimants, VerifyCommits(u)
    PROVE  Trades'
<1> DEFINE d == dealings[u]  b == d.claim.batch  p == d.claim.product
           old == batches[b].product
<1>1. /\ p \in Products /\ old \in Products /\ b \in DOMAIN batches /\ d.claim.vendor \in Vendors
      /\ holder[p] = u /\ holder[old] \in {None, u}
      /\ products[p].present /\ products[p].status = "active"
      /\ RowCleared(old, products'[old])
      /\ \A o \in Products \ {p, old} : products'[o] = products[o]
      /\ \A o \in Products \ {p} : holder'[o] = holder[o]
      /\ DOMAIN batches' = DOMAIN batches
      /\ batches'[b].org = d.claim.vendor
      /\ \A a \in DOMAIN batches \ {b} : batches'[a] = batches[a]
      /\ \A c \in Claims \ {d.c} : claims'[c] = claims[c]
  BY ConfirmSells
<1>2. UNCHANGED <<requests, reviewed, origin>> /\ dealings' = [dealings EXCEPT ![u] = NoDealing] /\ d.stage = "bound"
  BY DEF VerifyCommits
<1>3. OriginsKept
  BY <1>2 DEF OriginsKept, Cleared
<1>4. ProductsCleared'
  <2> SUFFICES ASSUME NEW o \in Products PROVE RowCleared(o, products'[o])
    BY <1>2 DEF ProductsCleared, RowCleared, Cleared
  <2>1. CASE o = old
    BY <1>1, <2>1
  <2>2. CASE o # old /\ o = p
    BY <1>1, <2>2 DEF Trades, ProductsCleared, RowCleared
  <2>3. CASE o \notin {old, p}
    BY <1>1, <2>3 DEF Trades, ProductsCleared
  <2> QED  BY <2>1, <2>2, <2>3
<1>5. \A o \in Products : holder[o] \notin {u, None} =>
         holder'[o] = holder[o] /\ products'[o] = products[o]
  BY <1>1
<1>6. \A r \in Requests : RequestTrades(r)'
  BY <1>2, <1>3, <1>5, ActorsApart, OtherRequests
<1>7. dealings'[u] = NoDealing /\ \A v \in Claimants \ {u} : dealings'[v] = dealings[v]
  BY <1>2 DEF Wellformed, MarketType
<1>8. ASSUME NEW v \in Claimants \ {u}, dealings[v].stage = "bound"
      PROVE  /\ dealings[v].claim.batch \in DOMAIN batches'
             /\ batches'[dealings[v].claim.batch] = batches[dealings[v].claim.batch]
             /\ claims'[dealings[v].c].batch = claims[dealings[v].c].batch
  <2>1. dealings[v].c # d.c /\ dealings[v].claim.batch # b
    BY <1>2, <1>8 DEF Trades, DealTrades
  <2>2. dealings[v].claim.batch \in DOMAIN batches /\ dealings[v].c \in Claims
    BY <1>8 DEF Wellformed, DealingHolds
  <2> QED  BY <1>1, <2>1, <2>2
<1>9. \A v \in Claimants \ {u} : DealTrades(v)'
  BY <1>3, <1>5, <1>7, <1>8, Constants, OtherDealings
<1>10. DealTrades(u)'
  BY <1>7, Constants DEF DealTrades
<1> QED  BY <1>4, <1>6, <1>9, <1>10 DEF Trades

LEMMA StepTrades == Wellformed /\ Trades /\ [Next]_vars => Trades'
<1> SUFFICES ASSUME Wellformed, Trades, [Next]_vars PROVE Trades'
  OBVIOUS
<1>1. CASE GenNext /\ UNCHANGED <<claims, sent, dealings>>
  BY <1>1, NewTrades, RecallTrades, ReadTrades, SaveTrades, StartTrades, LockTrades,
     ReserveTrades, CommitTrades, FailTrades DEF GenNext
<1>2. ASSUME NEW c \in Claims,
             \/ \E vendor \in Vendors, b \in Batches : Lookup(c, vendor, b)
             \/ Expire(c)
             \/ \E u \in Claimants :
                   \/ \E p \in Products : LinkReads(u, c, p)
                   \/ \E code \in 0..MaxSent : VerifyReads(u, c, code)
      PROVE  Trades'
  BY <1>2, LookupTrades, ReadsTrades
<1>3. ASSUME NEW u \in Claimants,
             \/ LinkSaves(u) \/ VerifyFails(u) \/ VerifyLocks(u) \/ VerifyCommits(u)
             \/ DealFails(u)
      PROVE  Trades'
  BY <1>3, DealEnds, LocksTrades, ConfirmTrades
<1>4. CASE UNCHANGED vars
  BY <1>4, OpenMarketAssumption, DealMoves DEF vars
<1> QED  BY <1>1, <1>2, <1>3, <1>4 DEF Next

LEMMA TradesAlways == Spec => [](Wellformed /\ Trades)
<1>1. Init => Trades
  BY InitTrades
<1>2. Wellformed /\ Trades /\ [Next]_vars => Trades'
  BY StepTrades
<1>3. IInv => Wellformed
  BY DEF IInv
<1> QED  BY <1>1, <1>2, <1>3, IInvAlways, PTL DEF Spec

\* A product is active only if it was approved, or was inserted active to hold a batch, for
\* any overlap of edits, renamings, reviews, archiving, recalls, batches and sales: a row in
\* hand that says active, or will when it comes back from the archive, is of such a product.
THEOREM ActiveWasReviewed == Spec => []ActiveProductsWereReviewed
<1>1. Wellformed /\ Trades => ActiveProductsWereReviewed
  BY DEF Trades, ProductsCleared, RowCleared, Cleared, ActiveProductsWereReviewed
<1> QED  BY <1>1, TradesAlways, PTL

\* The steps that make a batch or change one.
LEMMA BatchesChange ==
    ASSUME Wellformed, [Next]_vars, ~UNCHANGED batches
    PROVE  \/ \E q \in Requests : Commit(q) /\ UNCHANGED <<claims, sent, dealings>>
           \/ \E u \in Claimants : VerifyCommits(u)
<1>1. ASSUME NEW p \in Products, Create(p) \/ Recall(p) \/ \E key \in Keys : RepeatAssigned(p, key)
      PROVE  UNCHANGED batches
  BY <1>1 DEF Create, RepeatAssigned, Insert, Recall
<1>2. ASSUME NEW q \in Requests, NEW p \in Products, VendorReads(q, p) \/ ReviewerReads(q, p)
      PROVE  UNCHANGED batches
  BY <1>2 DEF VendorReads, ReviewerReads, Open
<1>3. ASSUME NEW q \in Requests, NEW p \in Products, NEW key \in Keys, NEW quantity \in Quantities,
             GenerateOwn(q, p, key, quantity) \/ GenerateAssigned(q, p, key, quantity)
                \/ GenerateOpen(q, p, key, quantity)
      PROVE  UNCHANGED batches
  BY <1>3 DEF GenerateOwn, GenerateAssigned, GenerateOpen, Start
<1>4. ASSUME NEW q \in Requests, Save(q) \/ LockProduct(q) \/ Reserve(q) \/ Fail(q)
      PROVE  UNCHANGED batches
  BY <1>4 DEF Save, LockProduct, Reserve, Fail
<1>5. ASSUME NEW c \in Claims,
             \/ \E vendor \in Vendors, b \in Batches : Lookup(c, vendor, b)
             \/ Expire(c)
             \/ \E u \in Claimants :
                   \/ \E p \in Products : LinkReads(u, c, p)
                   \/ \E code \in 0..MaxSent : VerifyReads(u, c, code)
      PROVE  UNCHANGED batches
  BY <1>5 DEF Lookup, Expire, LinkReads, VerifyReads, Deal, genVars
<1>6. ASSUME NEW u \in Claimants, LinkSaves(u) \/ VerifyFails(u) \/ VerifyLocks(u) \/ DealFails(u)
      PROVE  UNCHANGED batches
  BY <1>6 DEF LinkSaves, VerifyFails, SavesClaim, VerifyLocks, DealFails, genVars
<1> QED  BY <1>1, <1>2, <1>3, <1>4, <1>5, <1>6 DEF Next, GenNext, vars

\* A batch is made for, or handed to, a product that is active before and after the step:
\* the row lock is taken before the status is read and kept to the commit.
THEOREM CodesFromActiveProducts == Spec => CodesComeFromActiveProducts
<1> DEFINE Active == \A b \in DOMAIN batches' :
        b \notin DOMAIN batches \/ batches[b] # batches'[b] =>
            /\ products'[batches'[b].product].status = "active"
            /\ products[batches'[b].product].present =>
                   products[batches'[b].product].status = "active"
<1>1. ASSUME Wellformed, Trades, [Next]_vars PROVE Active
  <2>1. CASE UNCHANGED batches
    BY <2>1
  <2>2. ASSUME NEW q \in Requests, Commit(q) PROVE Active
    <3> DEFINE p == requests[q].product
    <3>1. /\ products'[p].status = "active"
          /\ products[p].present => products[p].status = "active"
      BY <1>1, <2>2, CommitSells
    <3>2. PICK b \in Batches \ DOMAIN batches :
             /\ DOMAIN batches' = DOMAIN batches \cup {b} /\ batches'[b] = NewBatch(q)
             /\ \A a \in DOMAIN batches : batches'[a] = batches[a]
      BY <1>1, <2>2, CommitSells
    <3>3. batches'[b].product = p
      BY <3>2 DEF NewBatch
    <3> QED  BY <3>1, <3>2, <3>3
  <2>3. ASSUME NEW u \in Claimants, VerifyCommits(u) PROVE Active
    BY <1>1, <2>3, ConfirmSells
  <2> QED  BY <1>1, <2>1, <2>2, <2>3, BatchesChange
<1>2. Wellformed /\ Trades /\ [Next]_vars => [Active]_vars
  BY <1>1
<1> QED  BY <1>2, TradesAlways, PTL DEF Spec, CodesComeFromActiveProducts

\* The steps after which a claim is consumed that was not.
LEMMA ClaimsConsumed ==
    ASSUME Wellformed, Trades, [Next]_vars, NEW c \in Claims,
           ~claims[c].consumed, claims'[c].consumed
    PROVE  \E u \in Claimants : VerifyCommits(u) /\ dealings[u].c = c
<1>t. claims \in [Claims -> ClaimRow]
  BY DEF Wellformed, MarketType
<1>1. claims' # claims
  OBVIOUS
<1>2. ~(\E vendor \in Vendors, b \in Batches, d \in Claims : Lookup(d, vendor, b))
  BY <1>t DEF Lookup, NoClaim
<1>3. ~(\E d \in Claims : Expire(d))
  BY <1>t DEF Expire, ClaimRow
<1>4. ~(\E u \in Claimants, d \in Claims :
          \/ \E p \in Products : LinkReads(u, d, p)
          \/ \E code \in 0..MaxSent : VerifyReads(u, d, code))
  BY <1>1 DEF LinkReads, VerifyReads, Deal
<1>5. ~(\E u \in Claimants : VerifyLocks(u) \/ DealFails(u))
  BY <1>1 DEF VerifyLocks, DealFails
<1>6. ASSUME NEW u \in Claimants, LinkSaves(u) \/ VerifyFails(u) PROVE FALSE
  <2>1. /\ dealings[u].stage \notin {"idle", "bound"} /\ dealings[u].claim \in ClaimRow
        /\ ~dealings[u].claim.consumed
    BY <1>6 DEF LinkSaves, VerifyFails, Wellformed, MarketType, DealingRow, Trades, DealTrades
  <2>2. PICK claim : /\ claims' = [claims EXCEPT ![dealings[u].c] = claim]
                     /\ claim.consumed = dealings[u].claim.consumed
    BY <1>6, <2>1 DEF LinkSaves, VerifyFails, SavesClaim, ClaimRow
  <2> QED  BY <1>t, <2>1, <2>2
<1>7. PICK u \in Claimants : VerifyCommits(u)
  BY <1>1, <1>2, <1>3, <1>4, <1>5, <1>6 DEF Next, vars
<1>8. \A d \in Claims \ {dealings[u].c} : claims'[d] = claims[d]
  BY <1>7, ConfirmSells
<1> QED  BY <1>7, <1>8

\* Of any number of vendors who claim a batch one gets it, and nobody takes it from him:
\* claim, inventory, product and batch are locked together until the commit.
THEOREM SoldOnce == Spec => InventoryIsSoldOnce
<1> DEFINE Sold == /\ \A b \in DOMAIN batches :
                         batches[b].status = "market_active" =>
                             b \in DOMAIN batches' /\ batches'[b] = batches[b]
                   /\ \A c \in Claims :
                         ~claims[c].consumed /\ claims'[c].consumed => Available(claims[c].batch)
<1>1. ASSUME Wellformed, Trades, [Next]_vars PROVE Sold
  <2>1. ASSUME NEW b \in DOMAIN batches, batches[b].status = "market_active"
        PROVE  b \in DOMAIN batches' /\ batches'[b] = batches[b]
    <3>1. CASE UNCHANGED batches
      BY <3>1
    <3>2. ASSUME NEW q \in Requests, Commit(q) PROVE b \in DOMAIN batches' /\ batches'[b] = batches[b]
      BY <1>1, <3>2, CommitSells
    <3>3. ASSUME NEW u \in Claimants, VerifyCommits(u)
          PROVE  b \in DOMAIN batches' /\ batches'[b] = batches[b]
      BY <1>1, <2>1, <3>3, ConfirmSells
    <3> QED  BY <1>1, <3>1, <3>2, <3>3, BatchesChange
  <2>2. ASSUME NEW c \in Claims, ~claims[c].consumed, claims'[c].consumed
        PROVE  Available(claims[c].batch)
    <3>1. PICK u \in Claimants : VerifyCommits(u) /\ dealings[u].c = c
      BY <1>1, <2>2, ClaimsConsumed
    <3> QED  BY <1>1, <3>1, ConfirmSells
  <2> QED  BY <2>1, <2>2
<1>2. Wellformed /\ Trades /\ [Next]_vars => [Sold]_vars
  BY <1>1
<1> QED  BY <1>2, TradesAlways, PTL DEF Spec, InventoryIsSoldOnce

=============================================================================
