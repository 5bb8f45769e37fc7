---------------------- MODULE DispatcherDeliveryProofs ----------------------
(***************************************************************************)
(* Proofs about Dispatcher: how often a handler runs, and what becomes of  *)
(* a call and of its answer.  A call c has at most one entry, in the list  *)
(* of the board that made it; every step is classified by what it does to  *)
(* that entry, and each invariant follows from the classification.         *)
(***************************************************************************)
EXTENDS DispatcherMatchingProofs, FiniteSetTheorems, FunctionTheorems

-----------------------------------------------------------------------------
(* The request entries of a call in a list                                 *)

Slots(s, c) == {i \in DOMAIN s : IsRequest(s[i]) /\ s[i].call = c}
Held(s, c) == {s[i] : i \in Slots(s, c)}

\* No call has two request entries in s.
Single(s) ==
    \A i, j \in DOMAIN s :
        IsRequest(s[i]) /\ IsRequest(s[j]) /\ s[i].call = s[j].call => i = j

LEMMA RemoveHeld ==
    ASSUME NEW s \in Seq(Entry), NEW k \in 1 .. Len(s), Single(s)
    PROVE  /\ Single(RemoveAt(s, k))
           /\ \A c : Held(RemoveAt(s, k), c) = IF k \in Slots(s, c) THEN {} ELSE Held(s, c)
  <1> DEFINE r == RemoveAt(s, k)
             at(j) == IF j < k THEN j ELSE j + 1
  <1>1. /\ DOMAIN r = 1 .. Len(s) - 1 /\ DOMAIN s = 1 .. Len(s) /\ Len(s) \in Nat
        /\ \A j \in 1 .. Len(s) - 1 : at(j) \in 1 .. Len(s) /\ r[j] = s[at(j)]
    BY RemoveAtList
  <1>2. \A i \in 1 .. Len(s) : i # k => \E j \in 1 .. Len(s) - 1 : at(j) = i
    <2>. SUFFICES ASSUME NEW i \in 1 .. Len(s), i # k
                  PROVE  \E j \in 1 .. Len(s) - 1 : at(j) = i
      OBVIOUS
    <2>1. CASE i < k
      BY <2>1, <1>1
    <2>2. CASE i > k
      <3>1. i - 1 \in 1 .. Len(s) - 1 /\ at(i - 1) = i
        BY <2>2, <1>1
      <3>. QED
        BY <3>1
    <2>. QED
      BY <2>1, <2>2
  <1>3. /\ \A j \in 1 .. Len(s) - 1 : at(j) # k
        /\ \A i, j \in 1 .. Len(s) - 1 : at(i) = at(j) => i = j
    BY <1>1
  <1>. HIDE DEF r, at
  <1>4. Single(r)
    BY <1>1, <1>3 DEF Single
  <1>5. ASSUME NEW c
        PROVE  Held(r, c) = IF k \in Slots(s, c) THEN {} ELSE Held(s, c)
    <2>1. CASE k \in Slots(s, c)
      <3>1. \A i \in Slots(s, c) : i = k
        BY <2>1 DEF Slots, Single
      <3>2. Slots(r, c) = {}
        BY <1>1, <1>3, <3>1 DEF Slots
      <3>. QED
        BY <2>1, <3>2 DEF Held
    <2>2. CASE k \notin Slots(s, c)
      <3>1. \A j \in Slots(r, c) : at(j) \in Slots(s, c) /\ r[j] = s[at(j)]
        BY <1>1 DEF Slots
      <3>2. \A i \in Slots(s, c) : \E j \in Slots(r, c) : r[j] = s[i]
        BY <1>1, <1>2, <2>2 DEF Slots
      <3>. QED
        BY <2>2, <3>1, <3>2 DEF Held
    <2>. QED
      BY <2>1, <2>2
  <1>. QED
    BY <1>4, <1>5 DEF r

LEMMA UpdateHeld ==
    ASSUME NEW s \in Seq(Entry), NEW k \in 1 .. Len(s), Single(s),
           NEW e \in Entry, e.header = s[k].header, e.call = s[k].call
    PROVE  /\ Single([s EXCEPT ![k] = e])
           /\ \A c : Held([s EXCEPT ![k] = e], c) =
                        IF k \in Slots(s, c) THEN {e} ELSE Held(s, c)
  <1> DEFINE r == [s EXCEPT ![k] = e]
  <1>1. DOMAIN r = DOMAIN s /\ k \in DOMAIN s
        /\ \A j \in DOMAIN s : r[j] = IF j = k THEN e ELSE s[j]
    OBVIOUS
  <1>. HIDE DEF r
  <1>2. \A j \in DOMAIN s : r[j].header = s[j].header /\ r[j].call = s[j].call
    BY <1>1
  <1>3. Single(r)
    BY <1>1, <1>2 DEF Single, IsRequest
  <1>4. \A c : Slots(r, c) = Slots(s, c)
    BY <1>1, <1>2 DEF Slots, IsRequest
  <1>5. ASSUME NEW c
        PROVE  Held(r, c) = IF k \in Slots(s, c) THEN {e} ELSE Held(s, c)
    <2>1. CASE k \in Slots(s, c)
      <3>1. Slots(s, c) = {k}
        BY <2>1 DEF Slots, Single
      <3>. QED
        BY <1>1, <1>4, <2>1, <3>1 DEF Held
    <2>2. CASE k \notin Slots(s, c)
      <3>1. \A j \in Slots(s, c) : r[j] = s[j]
        BY <1>1, <2>2 DEF Slots
      <3>. QED
        BY <1>4, <2>2, <3>1 DEF Held
    <2>. QED
      BY <2>1, <2>2
  <1>. QED
    BY <1>3, <1>5 DEF r

\* User code makes a call that has no entry yet.
LEMMA UserCodeHeld ==
    ASSUME TypeOK, NEW b \in Board, NEW s \in Seq(Entry), Single(s),
           NEW held \in SUBSET ResponseHandle,
           NEW reply \in Replies(held), NEW call \in Calls(b),
           \A c \in ToSet(call) : Slots(s, c) = {}
    PROVE  /\ Single(AfterUserCode(s, reply, call))
           /\ \A c : Held(AfterUserCode(s, reply, call), c) =
                        IF c \in ToSet(call) THEN {RequestEntry(c)} ELSE Held(s, c)
  <1> DEFINE r == AfterUserCode(s, reply, call)
             m == Len(reply)
             n == Len(call)
  <1>1. /\ m \in {0, 1} /\ n \in {0, 1} /\ Len(s) \in Nat /\ DOMAIN s = 1 .. Len(s)
        /\ DOMAIN r = 1 .. m + Len(s) + n
        /\ \A j \in 1 .. m : IsResponse(r[j])
        /\ \A j \in m + 1 .. m + Len(s) : r[j] = s[j - m]
    BY UserCodeList
  <1>2. ASSUME NEW c \in ToSet(call)
        PROVE  n = 1 /\ ToSet(call) = {c} /\ r[m + Len(s) + 1] = RequestEntry(c)
    <2>1. n = 1 /\ ToSet(call) = {c} /\ call = <<c>>
      BY DEF Calls, AtMostOne, ToSet
    <2>2. m + Len(s) + 1 \in m + Len(s) + 1 .. m + Len(s) + n
      BY <1>1, <2>1
    <2>3. PICK x \in todo : call = <<x>> /\ r[m + Len(s) + 1] = RequestEntry(x)
      BY <2>2, UserCodeList, SMTT(30)
    <2>. QED
      BY <2>1, <2>3
  <1>3. n = 1 => \E c : c \in ToSet(call)
    BY DEF ToSet, Calls, AtMostOne
  <1>. HIDE DEF r, m, n
  <1>4. \A c : IsRequest(RequestEntry(c)) /\ RequestEntry(c).call = c
    BY DEF RequestEntry, MakeEntry, MakeHeader, IsRequest
  <1>5. \A j \in DOMAIN r : IsRequest(r[j]) =>
           \/ /\ j - m \in DOMAIN s /\ r[j] = s[j - m]
           \/ /\ j = m + Len(s) + 1
              /\ \E c \in ToSet(call) : r[j] = RequestEntry(c)
    <2>. SUFFICES ASSUME NEW j \in DOMAIN r, IsRequest(r[j])
                  PROVE  \/ /\ j - m \in DOMAIN s /\ r[j] = s[j - m]
                         \/ /\ j = m + Len(s) + 1
                            /\ \E c \in ToSet(call) : r[j] = RequestEntry(c)
      OBVIOUS
    <2>1. j \notin 1 .. m
      BY <1>1 DEF IsRequest, IsResponse
    <2>2. CASE j <= m + Len(s)
      BY <1>1, <2>1, <2>2
    <2>3. CASE j > m + Len(s)
      <3>1. j = m + Len(s) + 1 /\ n = 1
        BY <1>1, <2>1, <2>3
      <3>. QED
        BY <1>2, <1>3, <3>1
    <2>. QED
      BY <1>1, <2>2, <2>3
  <1>6. Single(r)
    <2>. SUFFICES ASSUME NEW i \in DOMAIN r, NEW j \in DOMAIN r,
                         IsRequest(r[i]), IsRequest(r[j]), r[i].call = r[j].call
                  PROVE  i = j
      BY DEF Single
    <2>1. ASSUME i - m \in DOMAIN s, r[i] = s[i - m], j - m \in DOMAIN s, r[j] = s[j - m]
          PROVE  i = j
      <3>1. i - m = j - m
        BY <2>1 DEF Single
      <3>. QED
        BY <1>1, <3>1
    <2>2. ASSUME NEW x \in DOMAIN r, NEW y \in DOMAIN r, IsRequest(r[x]),
                 x - m \in DOMAIN s, r[x] = s[x - m],
                 NEW c \in ToSet(call), r[y] = RequestEntry(c), r[x].call = r[y].call
          PROVE  FALSE
      BY <1>4, <2>2 DEF Slots
    <2>. QED
      BY <1>5, <2>1, <2>2
  <1>7. ASSUME NEW c
        PROVE  Held(r, c) = IF c \in ToSet(call) THEN {RequestEntry(c)} ELSE Held(s, c)
    <2>1. \A i \in Slots(s, c) : i + m \in Slots(r, c) /\ r[i + m] = s[i]
      <3>. SUFFICES ASSUME NEW i \in Slots(s, c)
                    PROVE  i + m \in Slots(r, c) /\ r[i + m] = s[i]
        OBVIOUS
      <3>1. i \in 1 .. Len(s)
        BY <1>1 DEF Slots
      <3>2. i + m \in m + 1 .. m + Len(s) /\ i + m \in DOMAIN r /\ (i + m) - m = i
        BY <1>1, <3>1
      <3>3. r[i + m] = s[i]
        BY <1>1, <3>2
      <3>. QED
        BY <3>2, <3>3 DEF Slots
    <2>2. CASE c \in ToSet(call)
      <3>1. m + Len(s) + 1 \in DOMAIN r /\ r[m + Len(s) + 1] = RequestEntry(c)
        BY <1>1, <1>2, <2>2
      <3>2. m + Len(s) + 1 \in Slots(r, c)
        BY <1>4, <3>1 DEF Slots
      <3>3. \A j \in Slots(r, c) : r[j] = RequestEntry(c)
        BY <1>4, <1>5, <2>2 DEF Slots
      <3>. QED
        BY <2>2, <3>1, <3>2, <3>3 DEF Held
    <2>3. CASE c \notin ToSet(call)
      <3>1. \A j \in Slots(r, c) : j - m \in Slots(s, c) /\ r[j] = s[j - m]
        BY <1>4, <1>5, <2>3 DEF Slots
      <3>. QED
        BY <2>1, <2>3, <3>1 DEF Held
    <2>. QED
      BY <2>2, <2>3
  <1>. QED
    BY <1>6, <1>7 DEF r

-----------------------------------------------------------------------------
(* The entry of a call, on the board that made it                          *)

EntriesOf(c) == Held(entries[Home[Source[c]]], c)

SingleInv == \A b \in Board : Single(entries[b])
ListInv == HonestInv /\ SingleInv

\* Nothing happens to call c but that it may be made.
Untouched(c) ==
    EntriesOf(c)' = IF c \in todo \ todo' THEN {RequestEntry(c)} ELSE EntriesOf(c)

\* The list of b becomes s, apart from what user code adds.
ListBecomes(b, s) ==
    /\ todo' \subseteq todo /\ SingleInv'
    /\ \A c \in Call :
          EntriesOf(c)' = IF c \in todo \ todo' THEN {RequestEntry(c)}
                          ELSE IF Home[Source[c]] = b THEN Held(s, c) ELSE EntriesOf(c)

\* The entry e becomes those in X if it is a request, and no other request changes.
Changes(e, X) ==
    /\ todo' \subseteq todo /\ SingleInv'
    /\ \A c \in Call :
          IF IsRequest(e) /\ e.call = c
          THEN EntriesOf(c) = {e} /\ c \notin todo /\ EntriesOf(c)' = X
          ELSE Untouched(c)

LEMMA SlotsHonest ==
    ASSUME NEW M, NEW D, NEW b, NEW s \in Seq(HonestEntry(b, M, D)), NEW c,
           NEW i \in Slots(s, c)
    PROVE  /\ i \in 1 .. Len(s) /\ s[i] \in HonestEntry(b, M, D) /\ IsRequest(s[i])
           /\ s[i].call = c /\ c \in M /\ Home[Source[c]] = b
  <1>1. i \in 1 .. Len(s) /\ IsRequest(s[i]) /\ s[i].call = c
    BY DEF Slots
  <1>2. s[i] \in HonestEntry(b, M, D)
    BY <1>1, ElementOfSeq
  <1>. QED
    BY <1>1, <1>2 DEF HonestEntry

LEMMA CallerBoard == ASSUME NEW c \in Call PROVE Home[Source[c]] \in Board
  BY CallAssumption, ComponentAssumption

LEMMA HonestList ==
    ASSUME NEW b, NEW s \in Seq(HonestEntry(b, Made, Done)) PROVE s \in Seq(Entry)
  BY SeqMonotonic DEF HonestEntry

LEMMA NoUserCodeLists ==
    ASSUME ListInv, NEW b \in Board, NEW s \in Seq(HonestEntry(b, Made, Done)), Single(s),
           NEW i, NoUserCode(b, s, i)
    PROVE  ListBecomes(b, s)
  <1>1. /\ \A d \in Board : entries'[d] = IF d = b THEN s ELSE entries[d]
        /\ todo' = todo
    BY DEF NoUserCode, ListInv, HonestInv, TypeInv, TypeOK
  <1>2. SingleInv'
    BY <1>1 DEF ListInv, SingleInv
  <1>. QED
    BY <1>1, <1>2, CallerBoard DEF ListBecomes, EntriesOf

LEMMA UserCodeLists ==
    ASSUME ListInv, NEW b \in Board, NEW s \in Seq(HonestEntry(b, Made, Done)), Single(s),
           NEW i, NEW held \in SUBSET ResponseHandle,
           NEW reply \in Replies(held), NEW call \in Calls(b),
           UserCode(b, s, i, held, reply, call)
    PROVE  ListBecomes(b, s)
  <1>0. TypeOK /\ s \in Seq(Entry)
    BY HonestList DEF ListInv, HonestInv, TypeInv
  <1>1. \A c \in ToSet(call) : c \in todo /\ c \in Call /\ Home[Source[c]] = b
    BY <1>0, AtMostOneList DEF Calls, TypeOK
  <1>2. \A c \in ToSet(call) : Slots(s, c) = {}
    BY <1>1, SlotsHonest DEF Made
  <1>3. /\ \A d \in Board :
              entries'[d] = IF d = b THEN AfterUserCode(s, reply, call) ELSE entries[d]
        /\ todo' = todo \ ToSet(call)
    BY <1>0 DEF UserCode, TypeOK
  <1>4. /\ Single(AfterUserCode(s, reply, call))
        /\ \A c : Held(AfterUserCode(s, reply, call), c) =
                     IF c \in ToSet(call) THEN {RequestEntry(c)} ELSE Held(s, c)
    BY <1>0, <1>2, UserCodeHeld
  <1>5. SingleInv'
    BY <1>3, <1>4 DEF ListInv, SingleInv
  <1>6. ASSUME NEW c \in Call
        PROVE  EntriesOf(c)' = IF c \in todo \ todo' THEN {RequestEntry(c)}
                               ELSE IF Home[Source[c]] = b THEN Held(s, c)
                               ELSE EntriesOf(c)
    <2>1. c \in todo \ todo' <=> c \in ToSet(call)
      BY <1>1, <1>3
    <2>2. CASE Home[Source[c]] = b
      BY <1>3, <1>4, <2>1, <2>2 DEF EntriesOf
    <2>3. CASE Home[Source[c]] # b
      BY <1>1, <1>3, <2>1, <2>3, CallerBoard DEF EntriesOf
    <2>. QED
      BY <2>2, <2>3
  <1>. QED
    BY <1>3, <1>5, <1>6 DEF ListBecomes

LEMMA DeliverLists ==
    ASSUME ListInv, NEW b \in Board, NEW p \in Packet, NEW i,
           NEW s \in Seq(HonestEntry(b, Made, Done)), Single(s), Deliver(b, p, s, i)
    PROVE  ListBecomes(b, s)
  <1>1. CASE DeliversTo(b, p.header)
    <2> DEFINE held == IF p.header.destination = EventAddress
                       THEN handles[b] ELSE handles[b] \cup {HandleFor(p)}
    <2>0. TypeOK
      BY DEF ListInv, HonestInv, TypeInv
    <2>1. held \in SUBSET ResponseHandle
      <3>1. p.header.destination # EventAddress => HandleFor(p) \in ResponseHandle
        BY DEF HandleFor, ResponseHandle, Packet, Header
      <3>2. handles[b] \in SUBSET ResponseHandle
        BY <2>0 DEF TypeOK
      <3>. QED
        BY <3>1, <3>2
    <2>2. PICK reply \in Replies(held), call \in Calls(b) :
             UserCode(b, s, i, held, reply, call)
      BY <1>1 DEF Deliver
    <2>. HIDE DEF held
    <2>. QED
      BY <2>1, <2>2, UserCodeLists
  <1>2. CASE ~DeliversTo(b, p.header)
    BY <1>2, NoUserCodeLists DEF Deliver
  <1>. QED
    BY <1>1, <1>2

LEMMA CallBackLists ==
    ASSUME ListInv, NEW b \in Board, NEW e, NEW p, NEW i,
           NEW s \in Seq(HonestEntry(b, Made, Done)), Single(s), CallBack(b, e, p, s, i)
    PROVE  ListBecomes(b, s)
  <1>1. handles[b] \in SUBSET ResponseHandle
    BY DEF ListInv, HonestInv, TypeInv, TypeOK
  <1>. QED
    BY <1>1, UserCodeLists DEF CallBack

\* The entry at position k of the list of b, if it is a request, is the one of
\* its call.
LEMMA EntryIsSingle ==
    ASSUME ListInv, NEW b \in Board, NEW k \in DOMAIN entries[b], IsRequest(entries[b][k])
    PROVE  /\ EntriesOf(entries[b][k].call) = {entries[b][k]}
           /\ entries[b][k].call \in Made /\ Home[Source[entries[b][k].call]] = b
           /\ k \in Slots(entries[b], entries[b][k].call)
  <1> DEFINE e == entries[b][k]
  <1>1. k \in Slots(entries[b], e.call)
    BY DEF Slots
  <1>2. Home[Source[e.call]] = b /\ e.call \in Made
    BY <1>1, HonestParts, SlotsHonest DEF ListInv
  <1>3. \A i \in Slots(entries[b], e.call) : i = k
    BY <1>1 DEF ListInv, SingleInv, Single, Slots
  <1>. QED
    BY <1>1, <1>2, <1>3 DEF EntriesOf, Held

LEMMA SlotOfEntry ==
    ASSUME NEW s, NEW k \in DOMAIN s, NEW c
    PROVE  k \in Slots(s, c) <=> IsRequest(s[k]) /\ s[k].call = c
  BY DEF Slots

LEMMA KeepLists ==
    ASSUME ListInv, NEW b \in Board, ListBecomes(b, entries[b])
    PROVE  todo' \subseteq todo /\ SingleInv' /\ \A c \in Call : Untouched(c)
  BY DEF ListBecomes, Untouched, EntriesOf

LEMMA RemoveLists ==
    ASSUME ListInv, NEW b \in Board, NEW k \in DOMAIN entries[b],
           ListBecomes(b, RemoveAt(entries[b], k))
    PROVE  Changes(entries[b][k], {})
  <1> DEFINE e == entries[b][k]
             s == RemoveAt(entries[b], k)
  <1>0. entries[b] \in Seq(Entry) /\ k \in 1 .. Len(entries[b]) /\ Single(entries[b])
    BY HonestParts, HonestList DEF ListInv, SingleInv
  <1>1. \A c : Held(s, c) = IF IsRequest(e) /\ e.call = c THEN {} ELSE Held(entries[b], c)
    <2>1. \A c : Held(s, c) = IF k \in Slots(entries[b], c) THEN {} ELSE Held(entries[b], c)
      BY <1>0, RemoveHeld
    <2>. QED
      BY <2>1, SlotOfEntry
  <1>. HIDE DEF s
  <1>2. ASSUME NEW c \in Call, IsRequest(e), e.call = c
        PROVE  EntriesOf(c) = {e} /\ c \notin todo /\ EntriesOf(c)' = {}
    <2>1. EntriesOf(c) = {e} /\ c \notin todo /\ Home[Source[c]] = b
      BY <1>2, EntryIsSingle DEF Made
    <2>. QED
      BY <1>1, <1>2, <2>1 DEF ListBecomes, s
  <1>3. ASSUME NEW c \in Call, ~(IsRequest(e) /\ e.call = c) PROVE Untouched(c)
    BY <1>1, <1>3 DEF ListBecomes, Untouched, EntriesOf, s
  <1>. QED
    BY <1>2, <1>3 DEF Changes, ListBecomes

LEMMA UpdateLists ==
    ASSUME ListInv, NEW b \in Board, NEW k \in DOMAIN entries[b],
           NEW f \in Entry, f.header = entries[b][k].header, f.call = entries[b][k].call,
           ListBecomes(b, [entries[b] EXCEPT ![k] = f])
    PROVE  Changes(entries[b][k], {f})
  <1> DEFINE e == entries[b][k]
             s == [entries[b] EXCEPT ![k] = f]
  <1>0. entries[b] \in Seq(Entry) /\ k \in 1 .. Len(entries[b]) /\ Single(entries[b])
    BY HonestParts, HonestList DEF ListInv, SingleInv
  <1>1. \A c : Held(s, c) = IF IsRequest(e) /\ e.call = c THEN {f} ELSE Held(entries[b], c)
    <2>1. \A c : Held(s, c) = IF k \in Slots(entries[b], c) THEN {f} ELSE Held(entries[b], c)
      <3> DEFINE l == entries[b]
      <3>1. l \in Seq(Entry) /\ k \in 1 .. Len(l) /\ Single(l)
            /\ f.header = l[k].header /\ f.call = l[k].call /\ s = [l EXCEPT ![k] = f]
        BY <1>0
      <3>. HIDE DEF l, s
      <3>2. \A c : Held(s, c) = IF k \in Slots(l, c) THEN {f} ELSE Held(l, c)
        BY <3>1, UpdateHeld
      <3>. QED
        BY <3>2 DEF l
    <2>. QED
      BY <2>1, SlotOfEntry
  <1>. HIDE DEF s
  <1>2. ASSUME NEW c \in Call, IsRequest(e), e.call = c
        PROVE  EntriesOf(c) = {e} /\ c \notin todo /\ EntriesOf(c)' = {f}
    <2>1. EntriesOf(c) = {e} /\ c \notin todo /\ Home[Source[c]] = b
      BY <1>2, EntryIsSingle DEF Made
    <2>. QED
      BY <1>1, <1>2, <2>1 DEF ListBecomes, s
  <1>3. ASSUME NEW c \in Call, ~(IsRequest(e) /\ e.call = c) PROVE Untouched(c)
    BY <1>1, <1>3 DEF ListBecomes, Untouched, EntriesOf, s
  <1>. QED
    BY <1>2, <1>3 DEF Changes, ListBecomes

-----------------------------------------------------------------------------
(* What each step does to the entries                                      *)

AllUntouched == todo' \subseteq todo /\ SingleInv' /\ \A c \in Call : Untouched(c)

LEMMA ListParts ==
    ASSUME ListInv, NEW b \in Board
    PROVE  /\ HonestInv /\ TypeOK /\ Single(entries[b])
           /\ entries[b] \in Seq(HonestEntry(b, Made, Done))
           /\ entries[b] \in Seq(Entry)
           /\ \A i \in DOMAIN entries[b] :
                 /\ i \in 1 .. Len(entries[b]) /\ entries[b][i] \in Entry
                 /\ entries[b][i] \in HonestEntry(b, Made, Done)
                 /\ RemoveAt(entries[b], i) \in Seq(HonestEntry(b, Made, Done))
                 /\ Single(RemoveAt(entries[b], i))
  <1>1. /\ HonestInv /\ TypeOK /\ Single(entries[b])
        /\ entries[b] \in Seq(HonestEntry(b, Made, Done)) /\ entries[b] \in Seq(Entry)
    BY HonestParts, HonestList DEF ListInv, SingleInv
  <1>2. ASSUME NEW i \in DOMAIN entries[b]
        PROVE  /\ i \in 1 .. Len(entries[b]) /\ entries[b][i] \in Entry
               /\ entries[b][i] \in HonestEntry(b, Made, Done)
               /\ RemoveAt(entries[b], i) \in Seq(HonestEntry(b, Made, Done))
               /\ Single(RemoveAt(entries[b], i))
    BY <1>1, HonestParts, RemoveHeld DEF HonestEntry
  <1>. QED
    BY <1>1, <1>2

LEMMA SameLists ==
    ASSUME ListInv, UNCHANGED <<entries, todo>> PROVE AllUntouched
  BY DEF ListInv, AllUntouched, SingleInv, Untouched, EntriesOf

LEMMA WorkLists == ASSUME ListInv, NEW b \in Board, Work(b) PROVE AllUntouched
  <1>1. handles[b] \in SUBSET ResponseHandle
    BY ListParts DEF TypeOK
  <1>2. PICK reply \in Replies(handles[b]), call \in Calls(b) :
           UserCode(b, entries[b], 0, handles[b], reply, call)
    BY DEF Work
  <1>. QED
    BY <1>1, <1>2, ListParts, UserCodeLists, KeepLists DEF AllUntouched

LEMMA ReceiveRequestLists ==
    ASSUME ListInv, NEW b \in Board, NEW k, ReceiveRequest(b, k) PROVE AllUntouched
  <1>1. wire[b][k] \in Packet /\ Deliver(b, wire[b][k], entries[b], 0)
    BY ListParts, ArrivalType DEF ReceiveRequest
  <1>. QED
    BY <1>1, ListParts, DeliverLists, KeepLists DEF AllUntouched

\* The list of b with one entry changed.
LEMMA EntryUpdated ==
    ASSUME ListInv, NEW b \in Board, NEW k \in DOMAIN entries[b], NEW i,
           NEW f \in HonestEntry(b, Made, Done),
           f.header = entries[b][k].header, f.call = entries[b][k].call,
           NoUserCode(b, [entries[b] EXCEPT ![k] = f], i)
    PROVE  Changes(entries[b][k], {f})
  <1>1. k \in 1 .. Len(entries[b]) /\ f \in Entry
    BY ListParts DEF HonestEntry
  <1>2. [entries[b] EXCEPT ![k] = f] \in Seq(HonestEntry(b, Made, Done))
    BY <1>1, ListParts, ExceptSeq
  <1>3. Single([entries[b] EXCEPT ![k] = f])
    BY <1>1, ListParts, UpdateHeld
  <1>. QED
    BY <1>1, <1>2, <1>3, NoUserCodeLists, UpdateLists

InState(e, st) == [e EXCEPT !.state = st]
NextTry(e) == [e EXCEPT !.tries = @ + 1]

LEMMA EntryInState ==
    ASSUME NEW M, NEW D, NEW b, NEW e \in HonestEntry(b, M, D),
           NEW st \in {"WaitForACK", "WaitForResponse"}
    PROVE  /\ InState(e, st) \in HonestEntry(b, M, D) /\ InState(e, st) \in Entry
           /\ InState(e, st).header = e.header /\ InState(e, st).call = e.call
           /\ InState(e, st).tries = e.tries /\ InState(e, st).state = st
  BY DEF HonestEntry, Entry, IsRequest, IsResponse, InState

LEMMA EntryNextTry ==
    ASSUME NEW M, NEW D, NEW b, NEW e \in HonestEntry(b, M, D), e.tries < MaxTries
    PROVE  /\ NextTry(e) \in HonestEntry(b, M, D) /\ NextTry(e) \in Entry
           /\ NextTry(e).header = e.header /\ NextTry(e).call = e.call
           /\ NextTry(e).tries = e.tries + 1 /\ NextTry(e).state = e.state
  BY DEF HonestEntry, Entry, IsRequest, IsResponse, MaxTries, NextTry

LEMMA ReplyLists ==
    ASSUME ListInv, NEW b \in Board, NEW k, NEW i \in DOMAIN entries[b]
    PROVE  /\ ReplyEndsEntry(b, k, i) \/ ReplyCallsBack(b, k, i)
                 => Changes(entries[b][i], {})
           /\ ReplyAcknowledges(b, k, i)
                 => Changes(entries[b][i],
                            {InState(entries[b][i], "WaitForResponse")})
  <1>1. ASSUME ReplyEndsEntry(b, k, i) PROVE Changes(entries[b][i], {})
    BY <1>1, ListParts, NoUserCodeLists, RemoveLists DEF ReplyEndsEntry
  <1>2. ASSUME ReplyCallsBack(b, k, i) PROVE Changes(entries[b][i], {})
    BY <1>2, ListParts, CallBackLists, RemoveLists DEF ReplyCallsBack
  <1>3. ASSUME ReplyAcknowledges(b, k, i)
        PROVE  Changes(entries[b][i], {InState(entries[b][i], "WaitForResponse")})
    <2> DEFINE f == InState(entries[b][i], "WaitForResponse")
    <2>1. NoUserCode(b, [entries[b] EXCEPT ![i] = f], 0)
      BY <1>3 DEF ReplyAcknowledges, InState
    <2>2. /\ f \in HonestEntry(b, Made, Done)
          /\ f.header = entries[b][i].header /\ f.call = entries[b][i].call
      <3>1. entries[b][i] \in HonestEntry(b, Made, Done)
        BY ListParts
      <3>. QED
        BY <3>1, EntryInState
    <2>. HIDE DEF f
    <2>3. Changes(entries[b][i], {f})
      BY <2>1, <2>2, EntryUpdated
    <2>. QED
      BY <2>3 DEF f
  <1>. QED
    BY <1>1, <1>2, <1>3

\* What a step of the walk finds under the iterator.
LEMMA CurrentParts ==
    ASSUME ListInv, NEW b \in Board, InPass(b)
    PROVE  /\ HonestInv /\ entry[b] \in DOMAIN entries[b]
           /\ Current(b) = entries[b][entry[b]]
           /\ Current(b) \in HonestEntry(b, Made, Done) /\ Current(b) \in Entry
           /\ Without(b) = RemoveAt(entries[b], entry[b])
           /\ Without(b) \in Seq(HonestEntry(b, Made, Done)) /\ Single(Without(b))
           /\ PacketOf(Current(b)) \in Packet
           /\ IsRequest(Current(b)) => Current(b).header = RequestHeader(Current(b).call)
  <1>1. HonestInv
    BY DEF ListInv
  <1>2. entry[b] \in DOMAIN entries[b] /\ Without(b) = RemoveAt(entries[b], entry[b])
    BY <1>1, CurrentHonest DEF Without
  <1>. QED
    BY <1>1, <1>2, CurrentHonest, ListParts

LEMMA SendEventLists ==
    ASSUME ListInv, NEW b \in Board, SendEvent(b) PROVE Changes(Current(b), {})
  <1>1. InPass(b) /\ Deliver(b, PacketOf(Current(b)), Without(b), entry[b])
    BY DEF SendEvent, Pending
  <1>2. ListBecomes(b, Without(b))
    BY <1>1, CurrentParts, DeliverLists
  <1>. QED
    BY <1>1, <1>2, CurrentParts, RemoveLists

LEMMA SendLocalRequestLists ==
    ASSUME ListInv, NEW b \in Board, SendLocalRequest(b)
    PROVE  Changes(Current(b), IF Current(b).type = "Callback"
                               THEN {InState(Current(b), "WaitForResponse")} ELSE {})
  <1>1. InPass(b)
    BY DEF SendLocalRequest, Pending
  <1>2. CASE Current(b).type = "Callback"
    <2> DEFINE f == InState(Current(b), "WaitForResponse")
               s == [entries[b] EXCEPT ![entry[b]] = f]
    <2>1. Deliver(b, PacketOf(Current(b)), s, entry[b])
      BY <1>2 DEF SendLocalRequest, Current, InState
    <2>2. /\ f \in HonestEntry(b, Made, Done) /\ f \in Entry
          /\ f.header = Current(b).header /\ f.call = Current(b).call
      BY <1>1, CurrentParts, EntryInState
    <2>. HIDE DEF f
    <2>3. entry[b] \in 1 .. Len(entries[b])
      BY <1>1, CurrentParts, ListParts
    <2>4. s \in Seq(HonestEntry(b, Made, Done)) /\ Single(s)
      <3>1. s \in Seq(HonestEntry(b, Made, Done))
        BY <2>2, <2>3, ListParts, ExceptSeq
      <3>2. Single(s)
        BY <1>1, <2>2, <2>3, CurrentParts, ListParts, UpdateHeld
      <3>. QED
        BY <3>1, <3>2
    <2>5. ListBecomes(b, s)
      <3>. HIDE DEF s
      <3>. QED
        BY <1>1, <2>1, <2>4, CurrentParts, DeliverLists
    <2>6. Changes(Current(b), {f})
      BY <1>1, <2>2, <2>5, CurrentParts, UpdateLists
    <2>. QED
      BY <1>2, <2>6 DEF f
  <1>3. CASE Current(b).type # "Callback"
    <2>1. Deliver(b, PacketOf(Current(b)), Without(b), entry[b])
      BY <1>3 DEF SendLocalRequest
    <2>2. ListBecomes(b, Without(b))
      BY <1>1, <2>1, CurrentParts, DeliverLists
    <2>3. Changes(Current(b), {})
      BY <1>1, <2>2, CurrentParts, RemoveLists
    <2>. QED
      BY <1>3, <2>3
  <1>. QED
    BY <1>2, <1>3

\* Removing a response leaves the requests alone.
LEMMA RemoveResponse ==
    ASSUME NEW s \in Seq(Entry), NEW k \in 1 .. Len(s), Single(s), IsResponse(s[k])
    PROVE  Single(RemoveAt(s, k)) /\ \A c : Held(RemoveAt(s, k), c) = Held(s, c)
  <1>1. \A c : k \notin Slots(s, c)
    BY DEF Slots, IsRequest, IsResponse
  <1>. QED
    BY <1>1, RemoveHeld

\* Removing an entry behind the iterator leaves the one under it.
LEMMA RemoveBehind ==
    ASSUME ListInv, NEW b \in Board, InPass(b), NEW i \in entry[b] + 1 .. Len(entries[b])
    PROVE  /\ entry[b] \in 1 .. Len(RemoveAt(entries[b], i))
           /\ RemoveAt(entries[b], i)[entry[b]] = Current(b)
  <1>1. entry[b] \in 1 .. Len(entries[b]) /\ Current(b) = entries[b][entry[b]]
    BY CurrentParts, ListParts
  <1>2. entries[b] \in Seq(Entry) /\ i \in 1 .. Len(entries[b])
    BY <1>1, ListParts
  <1>3. /\ Len(RemoveAt(entries[b], i)) = Len(entries[b]) - 1
        /\ \A j \in 1 .. Len(entries[b]) - 1 :
              RemoveAt(entries[b], i)[j] = IF j < i THEN entries[b][j] ELSE entries[b][j + 1]
    BY <1>2, RemoveAtList
  <1>. QED
    BY <1>1, <1>3

LEMMA SendLocalResponseLists ==
    ASSUME ListInv, NEW b \in Board, NEW i \in DOMAIN entries[b], SendLocalResponse(b, i)
    PROVE  Changes(entries[b][i], {})
  <1> DEFINE r == RemoveAt(entries[b], i)
             rest == RemoveAt(r, entry[b])
  <1>1. /\ InPass(b) /\ IsResponse(Current(b)) /\ i \in entry[b] + 1 .. Len(entries[b])
        /\ IF entries[b][i].type = "Callback"
           THEN CallBack(b, entries[b][i], PacketOf(Current(b)), rest, entry[b])
           ELSE NoUserCode(b, rest, entry[b]) /\ UNCHANGED got
    BY DEF SendLocalResponse, LocalResponse, Pending, AnsweredBy
  <1>2. /\ entry[b] \in 1 .. Len(r) /\ r[entry[b]] = Current(b)
        /\ r \in Seq(HonestEntry(b, Made, Done)) /\ Single(r) /\ r \in Seq(Entry)
    BY <1>1, ListParts, HonestList, RemoveBehind
  <1>. HIDE DEF r
  <1>3. rest \in Seq(HonestEntry(b, Made, Done))
    BY <1>2, RemoveAtList
  <1>4. Single(rest) /\ \A c : Held(rest, c) = Held(r, c)
    BY <1>1, <1>2, RemoveResponse
  <1>. HIDE DEF rest
  <1>5. ListBecomes(b, rest)
    BY <1>1, <1>3, <1>4, CallBackLists, NoUserCodeLists
  <1>6. ListBecomes(b, r)
    BY <1>4, <1>5 DEF ListBecomes
  <1>. QED
    BY <1>6, RemoveLists DEF r

LEMMA SendLocalResponseInVainLists ==
    ASSUME ListInv, NEW b \in Board, SendLocalResponseInVain(b) PROVE AllUntouched
  <1>1. InPass(b) /\ IsResponse(Current(b)) /\ NoUserCode(b, Without(b), entry[b])
    BY DEF SendLocalResponseInVain, LocalResponse, Pending
  <1>2. ListBecomes(b, Without(b))
    BY <1>1, CurrentParts, NoUserCodeLists
  <1>3. Changes(Current(b), {})
    BY <1>1, <1>2, CurrentParts, RemoveLists
  <1>. QED
    BY <1>1, <1>3 DEF Changes, AllUntouched, IsRequest, IsResponse

LEMMA SendRemoteLists ==
    ASSUME ListInv, NEW b \in Board, SendRemote(b)
    PROVE  Changes(Current(b), {InState(Current(b), "WaitForACK")})
  <1> DEFINE f == InState(Current(b), "WaitForACK")
  <1>1. InPass(b) /\ NoUserCode(b, [entries[b] EXCEPT ![entry[b]] = f], entry[b] + 1)
    BY DEF SendRemote, Pending, Current, InState
  <1>2. f \in HonestEntry(b, Made, Done)
        /\ f.header = Current(b).header /\ f.call = Current(b).call
    BY <1>1, CurrentParts, EntryInState
  <1>. HIDE DEF f
  <1>3. Changes(Current(b), {f})
    BY <1>1, <1>2, CurrentParts, EntryUpdated
  <1>. QED
    BY <1>3 DEF f

LEMMA RetransmitLists ==
    ASSUME ListInv, NEW b \in Board, Retransmit(b)
    PROVE  Changes(Current(b), {NextTry(Current(b))})
  <1> DEFINE f == NextTry(Current(b))
  <1>1. /\ InPass(b) /\ Current(b).tries < MaxTries
        /\ NoUserCode(b, [entries[b] EXCEPT ![entry[b]] = f], entry[b] + 1)
    BY DEF Retransmit, Expired, Current, NextTry
  <1>2. f \in HonestEntry(b, Made, Done)
        /\ f.header = Current(b).header /\ f.call = Current(b).call
    BY <1>1, CurrentParts, EntryNextTry
  <1>. HIDE DEF f
  <1>3. Changes(Current(b), {f})
    BY <1>1, <1>2, CurrentParts, EntryUpdated
  <1>. QED
    BY <1>3 DEF f

LEMMA GiveUpLists ==
    ASSUME ListInv, NEW b \in Board, GiveUp(b) PROVE Changes(Current(b), {})
  <1>1. InPass(b) /\ NoUserCode(b, Without(b), entry[b])
    BY DEF GiveUp, Expired
  <1>2. ListBecomes(b, Without(b))
    BY <1>1, CurrentParts, NoUserCodeLists
  <1>. QED
    BY <1>1, <1>2, CurrentParts, RemoveLists

LEMMA SkipLists == ASSUME ListInv, NEW b \in Board, Skip(b) PROVE AllUntouched
  BY ListParts, NoUserCodeLists, KeepLists DEF Skip, AllUntouched

-----------------------------------------------------------------------------
(* Transmissions that a board may still execute                            *)

IsCopy(p, c) == IsRequest(p) /\ ~p.header.isAcknowledge /\ p.call = c

\* The transmissions of call c in the packets w.
Copies(w, c) == {k \in DOMAIN w : IsCopy(w[k], c)}

\* How often b executed c and how often it may do so with what is on the way.
Load(b, c) == ran[b][c] + Cardinality(Copies(wire[b], c))

LEMMA CopiesFinite ==
    ASSUME NEW w \in Seq(Packet), NEW c
    PROVE  IsFiniteSet(Copies(w, c)) /\ Cardinality(Copies(w, c)) \in Nat
  <1>1. IsFiniteSet(1 .. Len(w)) /\ Copies(w, c) \in SUBSET (1 .. Len(w))
    BY FS_Interval DEF Copies
  <1>. QED
    BY <1>1, FS_Subset, FS_CardinalityType

LEMMA CopiesRemove ==
    ASSUME NEW w \in Seq(Packet), NEW k \in 1 .. Len(w), NEW c
    PROVE  Cardinality(Copies(RemoveAt(w, k), c)) =
              Cardinality(Copies(w, c)) - (IF IsCopy(w[k], c) THEN 1 ELSE 0)
  <1> DEFINE r == RemoveAt(w, k)
             at(j) == IF j < k THEN j ELSE j + 1
             S == Copies(r, c)
             T == Copies(w, c) \ {k}
             f == [j \in S |-> at(j)]
  <1>0. r \in Seq(Packet) /\ Len(r) = Len(w) - 1
    BY RemoveAtList
  <1>1. /\ r \in Seq(Packet) /\ DOMAIN r = 1 .. Len(w) - 1 /\ DOMAIN w = 1 .. Len(w)
        /\ Len(w) \in Nat
        /\ \A j \in 1 .. Len(w) - 1 : at(j) \in 1 .. Len(w) /\ r[j] = w[at(j)]
    <2>1. \A j \in 1 .. Len(w) - 1 : at(j) \in 1 .. Len(w) /\ r[j] = w[at(j)]
      BY RemoveAtList
    <2>. HIDE DEF r
    <2>. QED
      BY <1>0, <2>1
  <1>2. /\ \A j \in 1 .. Len(w) - 1 : at(j) # k
        /\ \A i, j \in 1 .. Len(w) - 1 : at(i) = at(j) => i = j
    BY <1>1
  <1>3. \A i \in 1 .. Len(w) : i # k => \E j \in 1 .. Len(w) - 1 : at(j) = i
    <2>. SUFFICES ASSUME NEW i \in 1 .. Len(w), i # k
                  PROVE  \E j \in 1 .. Len(w) - 1 : at(j) = i
      OBVIOUS
    <2>1. CASE i < k
      BY <2>1, <1>1
    <2>2. CASE i > k
      <3>1. i - 1 \in 1 .. Len(w) - 1 /\ at(i - 1) = i
        BY <2>2, <1>1
      <3>. QED
        BY <3>1
    <2>. QED
      BY <2>1, <2>2
  <1>. HIDE DEF r, at
  <1>4. /\ \A j \in S : j \in 1 .. Len(w) - 1 /\ at(j) \in T
        /\ \A i \in T : \E j \in S : at(j) = i
    BY <1>1, <1>2, <1>3 DEF Copies
  <1>. HIDE DEF S, T
  <1>5. /\ f \in [S -> T] /\ (\A i, j \in S : f[i] = f[j] => i = j)
        /\ \A i \in T : \E j \in S : f[j] = i
    BY <1>2, <1>4
  <1>. HIDE DEF f
  <1>6. f \in Bijection(S, T)
    BY <1>5, Fun_IsBij
  <1>7. IsFiniteSet(S) /\ Cardinality(T) = Cardinality(S)
    <2>1. IsFiniteSet(S)
      BY <1>1, CopiesFinite DEF S
    <2>. QED
      BY <1>6, <2>1, FS_Bijection DEF ExistsBijection
  <1>8. IsFiniteSet(Copies(w, c)) /\ Cardinality(Copies(w, c)) \in Nat
        /\ (k \in Copies(w, c) <=> IsCopy(w[k], c))
    BY <1>1, CopiesFinite DEF Copies
  <1>9. Cardinality(T) =
           IF k \in Copies(w, c) THEN Cardinality(Copies(w, c)) - 1
           ELSE Cardinality(Copies(w, c))
    BY <1>8, FS_RemoveElement DEF T
  <1>. QED
    BY <1>7, <1>8, <1>9 DEF S, r

LEMMA CopiesAppend ==
    ASSUME NEW w \in Seq(Packet), NEW p \in Packet, NEW c
    PROVE  Cardinality(Copies(w \o <<p>>, c)) =
              Cardinality(Copies(w, c)) + (IF IsCopy(p, c) THEN 1 ELSE 0)
  <1> DEFINE n == Len(w) + 1
             r == w \o <<p>>
  <1>1. /\ DOMAIN r = 1 .. n /\ DOMAIN w = 1 .. Len(w) /\ Len(w) \in Nat
        /\ r[n] = p /\ \A j \in 1 .. Len(w) : r[j] = w[j]
    BY ConcatProperties
  <1>. HIDE DEF r
  <1>2. Copies(r, c) = IF IsCopy(p, c) THEN Copies(w, c) \cup {n} ELSE Copies(w, c)
    BY <1>1 DEF Copies
  <1>3. n \notin Copies(w, c)
    BY <1>1 DEF Copies
  <1>4. IsFiniteSet(Copies(w, c)) /\ Cardinality(Copies(w, c)) \in Nat
    BY CopiesFinite
  <1>5. Cardinality(Copies(w, c) \cup {n}) = Cardinality(Copies(w, c)) + 1
    BY <1>3, <1>4, FS_AddElement
  <1>. QED
    BY <1>2, <1>4, <1>5 DEF r

Count(b, c) == Cardinality(Copies(wire[b], c))

LEMMA CountType ==
    ASSUME TypeOK, NEW b \in Board, NEW c \in Call
    PROVE  Count(b, c) \in Nat /\ Load(b, c) \in Nat /\ ran[b][c] \in Nat
           /\ Load(b, c) = ran[b][c] + Count(b, c)
  <1>1. wire[b] \in Seq(Packet) /\ ran[b][c] \in Nat
    BY DEF TypeOK
  <1>2. Count(b, c) \in Nat
    BY <1>1, CopiesFinite DEF Count
  <1>. QED
    BY <1>1, <1>2 DEF Load, Count

\* Sending an entry puts one copy of a request on the way to every other board.
LEMMA SendCount ==
    ASSUME HonestInv, NEW b \in Board, NEW e \in HonestEntry(b, Made, Done), Send(b, e),
           NEW d \in Board, NEW c \in Call
    PROVE  Count(d, c)' = Count(d, c) + (IF d # b /\ IsRequest(e) /\ e.call = c THEN 1 ELSE 0)
  <1>1. wire'[d] = (IF d = b THEN wire[d] ELSE wire[d] \o <<PacketOf(e)>>)
    BY DEF Send, Sent
  <1>2. PacketOf(e) \in Packet /\ (IsCopy(PacketOf(e), c) <=> IsRequest(e) /\ e.call = c)
    BY DEF PacketOf, Packet, HonestEntry, Entry, IsCopy, IsRequest
  <1>0. TypeOK
    BY HonestParts
  <1>3. wire[d] \in Seq(Packet) /\ Count(d, c) \in Nat
    BY <1>0, CountType DEF TypeOK
  <1>4. CASE d = b
    BY <1>1, <1>3, <1>4 DEF Count
  <1>5. CASE d # b
    BY <1>1, <1>2, <1>3, <1>5, CopiesAppend DEF Count
  <1>. QED
    BY <1>4, <1>5

\* Dropping a packet takes its copy away; an acknowledgement is no copy.
LEMMA DropCount ==
    ASSUME HonestInv, NEW b \in Board, NEW k \in DOMAIN wire[b], NEW acks \in BOOLEAN,
           Drop(b, k, acks), acks => wire[b][k].header.destination # EventAddress,
           NEW d \in Board, NEW c \in Call
    PROVE  Count(d, c)' =
              Count(d, c) - (IF d = b /\ IsCopy(wire[b][k], c) THEN 1 ELSE 0)
  <1> DEFINE q == IF acks THEN <<AckOf(wire[b][k])>> ELSE <<>>
             w == RemoveAt(wire[b], k)
  <1>0. TypeOK
    BY HonestParts
  <1>1. /\ wire[b] \in Seq(Packet) /\ wire[d] \in Seq(Packet) /\ k \in 1 .. Len(wire[b])
        /\ wire[b][k] \in Packet /\ Count(d, c) \in Nat
    <2>1. wire \in [Board -> Seq(Packet)]
      BY <1>0 DEF TypeOK
    <2>2. Count(d, c) \in Nat
      BY <1>0, CountType
    <2>. QED
      BY <2>1, <2>2, ElementOfSeq
  <1>2. wire'[d] = IF d = b THEN w ELSE wire[d] \o q
    BY HonestParts DEF Drop, Sent, TypeOK
  <1>3. CASE d = b
    BY <1>1, <1>2, <1>3, CopiesRemove DEF Count
  <1>4. CASE d # b /\ acks
    <2>1. AckOf(wire[b][k]) \in Packet /\ ~IsCopy(AckOf(wire[b][k]), c)
      BY <1>1, <1>4 DEF AckOf, MakeHeader, Packet, Header, PacketType, IsCopy
    <2>. QED
      BY <1>1, <1>2, <1>4, <2>1, CopiesAppend DEF Count
  <1>5. CASE d # b /\ ~acks
    <2>1. wire'[d] = wire[d]
      BY <1>1, <1>2, <1>5, ConcatEmptySeq
    <2>. QED
      BY <1>1, <1>5, <2>1 DEF Count
  <1>. QED
    BY <1>3, <1>4, <1>5

LEMMA LoseCount ==
    ASSUME HonestInv, NEW b \in Board, Lose(b), NEW d \in Board, NEW c \in Call
    PROVE  Count(d, c)' <= Count(d, c)
  <1>1. PICK k \in DOMAIN wire[b] : wire' = [wire EXCEPT ![b] = RemoveAt(@, k)]
    BY DEF Lose
  <1>0. TypeOK
    BY HonestParts
  <1>2. /\ wire[b] \in Seq(Packet) /\ k \in 1 .. Len(wire[b]) /\ Count(d, c) \in Nat
        /\ wire'[d] = IF d = b THEN RemoveAt(wire[b], k) ELSE wire[d]
    <2>1. wire \in [Board -> Seq(Packet)]
      BY <1>0 DEF TypeOK
    <2>2. Count(d, c) \in Nat
      BY <1>0, CountType
    <2>. QED
      BY <1>1, <2>1, <2>2
  <1>3. CASE d = b
    BY <1>2, <1>3, CopiesRemove DEF Count
  <1>4. CASE d # b
    BY <1>2, <1>4 DEF Count
  <1>. QED
    BY <1>3, <1>4

\* Delivering a packet on b executes its call there at most once.
LEMMA DeliverRan ==
    ASSUME TypeOK, NEW b \in Board, NEW p \in Packet, NEW s, NEW i, Deliver(b, p, s, i),
           NEW d \in Board, NEW c \in Call
    PROVE  /\ ran[d][c] <= ran'[d][c]
           /\ ran'[d][c] <= ran[d][c] + (IF d = b /\ p.call = c THEN 1 ELSE 0)
           /\ ran'[d][c] \in Nat
           /\ DeliversTo(b, p.header) /\ d = b /\ p.call = c => ran'[d][c] > 0
  <1>1. p.call \in Call /\ ran[d][c] \in Nat
    BY DEF TypeOK, Packet
  <1>2. CASE DeliversTo(b, p.header)
    <2>1. ran' = [ran EXCEPT ![b][p.call] = @ + 1]
      BY <1>2 DEF Deliver
    <2>2. ran'[d][c] = ran[d][c] + (IF d = b /\ p.call = c THEN 1 ELSE 0)
      BY <1>1, <2>1 DEF TypeOK
    <2>. QED
      BY <1>1, <2>2
  <1>3. CASE ~DeliversTo(b, p.header)
    BY <1>1, <1>3 DEF Deliver
  <1>. QED
    BY <1>2, <1>3

-----------------------------------------------------------------------------
(* The fate of a call in a step                                            *)

LoadStays(c) == \A d \in Board : Load(d, c)' <= Load(d, c)
LoadGrows(c) == \A d \in Board : Load(d, c)' <= Load(d, c) + 1

\* The listeners or the handler ran on the board that made c.
RanAtHome(c) == ran[Home[Source[c]]][c] > 0
HomeListens(c) == <<Home[Source[c]], Identifier[c]>> \in Listens

\* Its entry is removed after a reply or for lack of one.
Settles(c) ==
    /\ IsAction(c) /\ c \notin todo
    /\ EntriesOf(c)' = {} /\ LoadStays(c)

\* An acknowledgement makes it wait for the response.
IsAcknowledged(c) ==
    /\ IsAction(c) /\ c \notin todo /\ LoadStays(c)
    /\ \E e \in EntriesOf(c) : EntriesOf(c)' = {InState(e, "WaitForResponse")}

\* It is sent for the first time and forgotten, or waits for a reply.
IsSent(c) ==
    /\ c \notin todo /\ LoadGrows(c)
    /\ \E e \in EntriesOf(c) :
          /\ e.state = "TransmissionPending"
          /\ \/ /\ EntriesOf(c)' = {}
                /\ ~IsAction(c) /\ HomeListens(c) => RanAtHome(c)'
             \/ /\ IsAction(c)
                /\ \E st \in {"WaitForACK", "WaitForResponse"} :
                      EntriesOf(c)' = {InState(e, st)}

\* It is sent once more.
IsSentAgain(c) ==
    /\ IsAction(c) /\ c \notin todo /\ LoadGrows(c) /\ timeouts' = timeouts + 1
    /\ \E e \in EntriesOf(c) : /\ e.state # "TransmissionPending" /\ e.tries < MaxTries
                               /\ EntriesOf(c)' = {NextTry(e)}

Fate(c) ==
    /\ timeouts' \in Nat /\ timeouts <= timeouts'
    /\ RanAtHome(c) => RanAtHome(c)'
    /\ \/ Untouched(c) /\ LoadStays(c)
       \/ Settles(c)
       \/ IsAcknowledged(c)
       \/ IsSent(c)
       \/ IsSentAgain(c)

Fates == todo' \subseteq todo /\ SingleInv' /\ \A c \in Call : Fate(c)

LEMMA LoadSame ==
    ASSUME ListInv, UNCHANGED <<ran, wire>>, NEW c \in Call
    PROVE  LoadStays(c) /\ (RanAtHome(c) => RanAtHome(c)')
  <1>1. ASSUME NEW d \in Board PROVE Load(d, c)' <= Load(d, c)
    <2>1. Load(d, c) \in Nat
      BY ListParts, CountType
    <2>. QED
      BY <2>1 DEF Load
  <1>. QED
    BY <1>1 DEF LoadStays, RanAtHome

LEMMA UntouchedFates ==
    ASSUME ListInv, AllUntouched, timeouts' \in Nat, timeouts <= timeouts',
           \A c \in Call : LoadStays(c) /\ (RanAtHome(c) => RanAtHome(c)')
    PROVE  Fates
  BY DEF AllUntouched, Fates, Fate

LEMMA TimeoutsNat ==
    ASSUME ListInv PROVE timeouts \in Nat
  BY BackendAssumption DEF ListInv, HonestInv, TypeInv, TypeOK

\* Steps that only move boards through their main loop, and user code by itself.
LEMMA QuietFates ==
    ASSUME ListInv, AllUntouched, UNCHANGED <<ran, wire, timeouts>> PROVE Fates
  BY LoadSame, TimeoutsNat, UntouchedFates

LEMMA LoseFates == ASSUME ListInv, NEW b \in Board, Lose(b) PROVE Fates
  <1>1. AllUntouched /\ ran' = ran /\ timeouts' = timeouts
    BY SameLists DEF Lose, history
  <1>2. ASSUME NEW c \in Call PROVE LoadStays(c) /\ (RanAtHome(c) => RanAtHome(c)')
    <2>1. ASSUME NEW d \in Board PROVE Load(d, c)' <= Load(d, c)
      <3>1. Count(d, c)' <= Count(d, c) /\ Count(d, c) \in Nat /\ ran[d][c] \in Nat
        BY ListParts, LoseCount, CountType
      <3>2. Count(d, c)' \in Nat
        <4>1. TypeOK'
          BY ListParts, LoseType DEF HonestInv, TypeInv
        <4>. QED
          BY <4>1, CopiesFinite DEF TypeOK, Count
      <3>. QED
        BY <1>1, <3>1, <3>2 DEF Load, Count
    <2>. QED
      BY <1>1, <2>1 DEF LoadStays, RanAtHome
  <1>. QED
    BY <1>1, <1>2, TimeoutsNat, UntouchedFates

\* The packet at k is dropped while nothing runs.
LEMMA DropLoad ==
    ASSUME ListInv, NEW b \in Board, NEW k, IsReply(b, k), AckReply(b, k), ran' = ran,
           NEW c \in Call
    PROVE  LoadStays(c) /\ (RanAtHome(c) => RanAtHome(c)')
  <1> DEFINE acks == /\ ~wire[b][k].header.isAcknowledge
                     /\ wire[b][k].header.destination # EventAddress
                     /\ IsComponentAvailable(b, wire[b][k].header.destination)
  <1>1. /\ k \in DOMAIN wire[b] /\ Drop(b, k, acks) /\ acks \in BOOLEAN
        /\ acks => wire[b][k].header.destination # EventAddress
    BY DEF IsReply, Arrivals, AckReply
  <1>. HIDE DEF acks
  <1>2. ASSUME NEW d \in Board PROVE Load(d, c)' <= Load(d, c)
    <2>1. Count(d, c)' <= Count(d, c) /\ Count(d, c)' \in Int
      <3>1. Count(d, c) \in Nat
        BY ListParts, CountType
      <3>2. HonestInv
        BY DEF ListInv
      <3>3. Count(d, c)' =
               Count(d, c) - (IF d = b /\ IsCopy(wire[b][k], c) THEN 1 ELSE 0)
        BY <1>1, <3>2, DropCount
      <3>. QED
        BY <3>1, <3>3
    <2>2. ran[d][c] \in Nat /\ Count(d, c) \in Nat
      BY ListParts, CountType
    <2>. QED
      BY <2>1, <2>2 DEF Load, Count
  <1>. QED
    BY <1>2 DEF LoadStays, RanAtHome

LEMMA ReceiveRequestFates ==
    ASSUME ListInv, NEW b \in Board, NEW k, ReceiveRequest(b, k) PROVE Fates
  <1> DEFINE p == wire[b][k]
             acks == DeliversTo(b, p.header) /\ p.header.destination # EventAddress
  <1>1. /\ k \in DOMAIN wire[b] /\ IsRequest(p) /\ ~p.header.isAcknowledge
        /\ Deliver(b, p, entries[b], 0) /\ Drop(b, k, acks) /\ acks \in BOOLEAN
        /\ acks => p.header.destination # EventAddress
        /\ timeouts' = timeouts
    BY DEF ReceiveRequest, Arrivals, DeliversTo
  <1>2. p \in Packet /\ HonestInv /\ TypeOK
    BY <1>1, ListParts, HonestParts DEF HonestPacket
  <1>3. ASSUME NEW c \in Call PROVE LoadStays(c) /\ (RanAtHome(c) => RanAtHome(c)')
    <2>1. ASSUME NEW d \in Board
          PROVE  Load(d, c)' <= Load(d, c) /\ ran[d][c] <= ran'[d][c]
                 /\ ran[d][c] \in Nat /\ ran'[d][c] \in Nat
      <3>1. /\ ran[d][c] <= ran'[d][c] /\ ran'[d][c] \in Nat
            /\ ran'[d][c] <= ran[d][c] + (IF d = b /\ p.call = c THEN 1 ELSE 0)
        BY <1>1, <1>2, DeliverRan
      <3>2. Count(d, c)' = Count(d, c) - (IF d = b /\ IsCopy(p, c) THEN 1 ELSE 0)
        <4>. HIDE DEF acks
        <4>. QED
          BY <1>1, <1>2, DropCount
      <3>3. IsCopy(p, c) <=> p.call = c
        BY <1>1 DEF IsCopy
      <3>4. ran[d][c] \in Nat /\ Count(d, c) \in Nat
        BY <1>2, CountType
      <3>. QED
        BY <3>1, <3>2, <3>3, <3>4 DEF Load, Count
    <2>. QED
      BY <2>1, CallerBoard DEF LoadStays, RanAtHome
  <1>. QED
    BY <1>1, <1>3, ReceiveRequestLists, TimeoutsNat, UntouchedFates

\* A reply can only fit the entry of an action.
LEMMA ReplyAction ==
    ASSUME ListInv, NEW b \in Board, NEW k, IsReply(b, k), NEW i \in DOMAIN entries[b],
           FirstFit(entries[b], i, wire[b][k].header), IsRequest(entries[b][i])
    PROVE  entries[b][i].call \in Call /\ IsAction(entries[b][i].call)
  <1>1. k \in DOMAIN wire[b] /\ HeaderFits(entries[b][i], wire[b][k].header)
    BY DEF IsReply, Arrivals, FirstFit
  <1>2. wire[b][k].header \in Header
    BY <1>1, ListParts, HonestParts DEF HonestPacket, Packet
  <1>3. entries[b][i].header.destination # EventAddress
    BY <1>1, <1>2, FitsAction
  <1>4. entries[b][i] \in HonestEntry(b, Made, Done) /\ entries[b][i] \in Entry
    BY ListParts
  <1>5. entries[b][i].header = RequestHeader(entries[b][i].call)
    BY <1>4 DEF HonestEntry
  <1>. QED
    BY <1>3, <1>4, <1>5 DEF RequestHeader, MakeHeader, IsAction, Entry

LEMMA ReplyFates ==
    ASSUME ListInv, NEW b \in Board, NEW k,
           \/ IgnoreReply(b, k)
           \/ \E i \in DOMAIN entries[b] : \/ ReplyEndsEntry(b, k, i)
                                           \/ ReplyAcknowledges(b, k, i)
                                           \/ ReplyCallsBack(b, k, i)
    PROVE  Fates
  <1>1. IsReply(b, k) /\ AckReply(b, k) /\ ran' = ran /\ timeouts' = timeouts
    BY DEF IgnoreReply, ReplyEndsEntry, ReplyAcknowledges, ReplyCallsBack, history
  <1>2. /\ \A c \in Call : LoadStays(c) /\ (RanAtHome(c) => RanAtHome(c)')
        /\ timeouts' \in Nat /\ timeouts <= timeouts'
    BY <1>1, DropLoad, TimeoutsNat
  <1>3. CASE IgnoreReply(b, k)
    BY <1>2, <1>3, SameLists, UntouchedFates DEF IgnoreReply
  <1>4. ASSUME NEW i \in DOMAIN entries[b], ReplyEndsEntry(b, k, i) \/ ReplyCallsBack(b, k, i)
        PROVE  Fates
    <2>1. Changes(entries[b][i], {}) /\ FirstFit(entries[b], i, wire[b][k].header)
      BY <1>4, ReplyLists DEF ReplyEndsEntry, ReplyCallsBack
    <2>2. IsRequest(entries[b][i]) => IsAction(entries[b][i].call)
      BY <1>1, <2>1, ReplyAction
    <2>. QED
      BY <1>2, <2>1, <2>2 DEF Changes, Fates, Fate, Settles
  <1>5. ASSUME NEW i \in DOMAIN entries[b], ReplyAcknowledges(b, k, i)
        PROVE  Fates
    <2>1. /\ Changes(entries[b][i], {InState(entries[b][i], "WaitForResponse")})
          /\ FirstFit(entries[b], i, wire[b][k].header)
      BY <1>5, ReplyLists DEF ReplyAcknowledges
    <2>2. IsRequest(entries[b][i]) => IsAction(entries[b][i].call)
      BY <1>1, <2>1, ReplyAction
    <2>. QED
      BY <1>2, <2>1, <2>2 DEF Changes, Fates, Fate, IsAcknowledged
  <1>. QED
    BY <1>3, <1>4, <1>5

\* The entry under the iterator leaves the board, if at all, as one packet.
LEMMA SendLoad ==
    ASSUME ListInv, NEW b \in Board, InPass(b), NEW c \in Call,
           \/ Send(b, Current(b)) /\ ran' = ran
           \/ wire' = wire /\ ran' = ran
           \/ \E s, i : /\ Send(b, Current(b)) /\ IsRequest(Current(b))
                        /\ Deliver(b, PacketOf(Current(b)), s, i)
    PROVE  /\ LoadGrows(c)
           /\ ~(IsRequest(Current(b)) /\ Current(b).call = c) => LoadStays(c)
           /\ RanAtHome(c) => RanAtHome(c)'
  <1> DEFINE e == Current(b)
             one == IF IsRequest(e) /\ e.call = c THEN 1 ELSE 0
  <1>0. /\ TypeOK /\ HonestInv /\ e \in HonestEntry(b, Made, Done)
        /\ PacketOf(e) \in Packet /\ PacketOf(e).call = e.call
    BY ListParts, CurrentParts DEF PacketOf
  <1>1. ASSUME NEW d \in Board
        PROVE  /\ Load(d, c)' <= Load(d, c) + one /\ Load(d, c) \in Nat /\ Load(d, c)' \in Int
               /\ ran[d][c] <= ran'[d][c] /\ ran[d][c] \in Nat /\ ran'[d][c] \in Nat
    <2>1. ran[d][c] \in Nat /\ Count(d, c) \in Nat /\ Load(d, c) = ran[d][c] + Count(d, c)
      BY <1>0, CountType
    <2>2. Load(d, c)' = ran'[d][c] + Count(d, c)'
      BY DEF Load, Count
    <2>3. CASE wire' = wire /\ ran' = ran
      <3>1. Count(d, c)' = Count(d, c)
        BY <2>3 DEF Count
      <3>. QED
        BY <2>1, <2>2, <2>3, <3>1
    <2>4. CASE Send(b, e) /\ ran' = ran
      <3>1. Count(d, c)' =
               Count(d, c) + (IF d # b /\ IsRequest(e) /\ e.call = c THEN 1 ELSE 0)
        BY <1>0, <2>4, SendCount
      <3>. HIDE DEF e
      <3>. QED
        BY <2>1, <2>2, <2>4, <3>1
    <2>5. ASSUME NEW s, NEW i, Send(b, e), IsRequest(e), Deliver(b, PacketOf(e), s, i)
          PROVE  /\ Load(d, c)' <= Load(d, c) + one /\ Load(d, c) \in Nat
                 /\ Load(d, c)' \in Int
                 /\ ran[d][c] <= ran'[d][c] /\ ran[d][c] \in Nat /\ ran'[d][c] \in Nat
      <3>1. Count(d, c)' =
               Count(d, c) + (IF d # b /\ IsRequest(e) /\ e.call = c THEN 1 ELSE 0)
        BY <1>0, <2>5, SendCount
      <3>2. /\ ran[d][c] <= ran'[d][c] /\ ran'[d][c] \in Nat
            /\ ran'[d][c] <= ran[d][c] + (IF d = b /\ e.call = c THEN 1 ELSE 0)
        BY <1>0, <2>5, DeliverRan
      <3>. HIDE DEF e
      <3>. QED
        BY <2>1, <2>2, <2>5, <3>1, <3>2
    <2>. QED
      BY <2>3, <2>4, <2>5
  <1>. HIDE DEF e
  <1>. QED
    BY <1>1, CallerBoard DEF LoadGrows, LoadStays, RanAtHome, e

LEMMA SendEventFates == ASSUME ListInv, NEW b \in Board, SendEvent(b) PROVE Fates
  <1> DEFINE e == Current(b)
  <1>1. /\ InPass(b) /\ Deliver(b, PacketOf(e), Without(b), entry[b])
        /\ Send(b, e) /\ e.header.destination = EventAddress
        /\ e.state = "TransmissionPending" /\ timeouts' = timeouts
    BY DEF SendEvent, Pending, IsEvent
  <1>2. Changes(e, {}) /\ e \in HonestEntry(b, Made, Done) /\ PacketOf(e) \in Packet
        /\ TypeOK
    BY <1>1, SendEventLists, CurrentParts, ListParts
  <1>3. IsRequest(e)
    BY <1>1, <1>2, EventIsRequest
  <1>4. \A c \in Call : /\ LoadGrows(c) /\ (e.call # c => LoadStays(c))
                        /\ RanAtHome(c) => RanAtHome(c)'
    BY <1>1, <1>3, SendLoad
  <1>5. e.header = RequestHeader(e.call) /\ Home[Source[e.call]] = b /\ e.call \in Call
    BY <1>2, <1>3 DEF HonestEntry, Entry
  <1>6. ~IsAction(e.call) /\ e.header.packetIdentifier = Identifier[e.call]
    BY <1>1, <1>5 DEF RequestHeader, MakeHeader, IsAction
  <1>7. ASSUME NEW c \in Call, e.call = c, HomeListens(c) PROVE RanAtHome(c)'
    <2>1. DeliversTo(b, PacketOf(e).header) /\ PacketOf(e).call = c
      BY <1>1, <1>5, <1>6, <1>7 DEF HomeListens, DeliversTo, PacketOf
    <2>2. ran'[b][c] > 0
      BY <1>1, <1>2, <2>1, DeliverRan
    <2>. QED
      BY <1>5, <1>7, <2>2 DEF RanAtHome
  <1>8. timeouts' \in Nat /\ timeouts <= timeouts'
    BY <1>1, TimeoutsNat
  <1>. HIDE DEF e
  <1>9. ASSUME NEW c \in Call PROVE Fate(c)
    <2>1. CASE e.call = c
      <3>1. EntriesOf(c) = {e} /\ c \notin todo /\ EntriesOf(c)' = {}
        BY <1>2, <1>3, <2>1 DEF Changes
      <3>2. IsSent(c)
        BY <1>1, <1>4, <1>6, <1>7, <2>1, <3>1 DEF IsSent
      <3>. QED
        BY <1>4, <1>8, <3>2 DEF Fate
    <2>2. CASE e.call # c
      BY <1>2, <1>4, <1>8, <2>2 DEF Changes, Fate
    <2>. QED
      BY <2>1, <2>2
  <1>. QED
    BY <1>2, <1>9 DEF Changes, Fates

\* A step that changes the entry e and sends at most that.
LEMMA ChangeFates ==
    ASSUME ListInv, NEW e, NEW X, Changes(e, X), timeouts' \in Nat, timeouts <= timeouts',
           \A c \in Call : /\ LoadGrows(c) /\ (RanAtHome(c) => RanAtHome(c)')
                           /\ ~(IsRequest(e) /\ e.call = c) => LoadStays(c),
           \A c \in Call : IsRequest(e) /\ e.call = c /\ EntriesOf(c) = {e} /\ c \notin todo
                           /\ EntriesOf(c)' = X => Fate(c)
    PROVE  Fates
  <1>1. ASSUME NEW c \in Call PROVE Fate(c)
    <2>1. CASE IsRequest(e) /\ e.call = c
      BY <2>1 DEF Changes
    <2>2. CASE ~(IsRequest(e) /\ e.call = c)
      BY <2>2 DEF Changes, Fate
    <2>. QED
      BY <2>1, <2>2
  <1>. QED
    BY <1>1 DEF Changes, Fates

LEMMA SendLocalRequestFates ==
    ASSUME ListInv, NEW b \in Board, SendLocalRequest(b) PROVE Fates
  <1> DEFINE e == Current(b)
             X == IF e.type = "Callback" THEN {InState(e, "WaitForResponse")} ELSE {}
  <1>1. /\ InPass(b) /\ IsRequest(e) /\ Send(b, e) /\ timeouts' = timeouts
        /\ \E s, i : Deliver(b, PacketOf(e), s, i)
        /\ e.header.destination # EventAddress /\ e.state = "TransmissionPending"
    BY DEF SendLocalRequest, Pending, IsEvent
  <1>2. Changes(e, X) /\ e.header = RequestHeader(e.call)
    BY <1>1, SendLocalRequestLists, CurrentParts
  <1>3. IsAction(e.call)
    BY <1>1, <1>2 DEF RequestHeader, MakeHeader, IsAction
  <1>4. \A c \in Call : /\ LoadGrows(c) /\ (RanAtHome(c) => RanAtHome(c)')
                        /\ ~(IsRequest(e) /\ e.call = c) => LoadStays(c)
    BY <1>1, SendLoad
  <1>5. timeouts' \in Nat /\ timeouts <= timeouts'
    BY <1>1, TimeoutsNat
  <1>6. X = {} \/ X = {InState(e, "WaitForResponse")}
    OBVIOUS
  <1>. HIDE DEF e, X
  <1>7. ASSUME NEW c \in Call, e.call = c, EntriesOf(c) = {e}, c \notin todo, EntriesOf(c)' = X
        PROVE  Fate(c)
    <2>1. IsSent(c)
      BY <1>1, <1>3, <1>4, <1>6, <1>7 DEF IsSent
    <2>. QED
      BY <1>4, <1>5, <2>1 DEF Fate
  <1>8. \A c \in Call : IsRequest(e) /\ e.call = c /\ EntriesOf(c) = {e} /\ c \notin todo
                        /\ EntriesOf(c)' = X => Fate(c)
    BY <1>7
  <1>9. Changes(e, X)
    BY <1>2
  <1>. QED
    BY <1>4, <1>5, <1>8, <1>9, ChangeFates

LEMMA SendRemoteFates == ASSUME ListInv, NEW b \in Board, SendRemote(b) PROVE Fates
  <1> DEFINE e == Current(b)
             X == {InState(e, "WaitForACK")}
  <1>1. /\ InPass(b) /\ Send(b, e) /\ timeouts' = timeouts /\ ran' = ran
        /\ e.header.destination # EventAddress /\ e.state = "TransmissionPending"
    BY DEF SendRemote, Pending, IsEvent
  <1>2. Changes(e, X) /\ (IsRequest(e) => e.header = RequestHeader(e.call))
    BY <1>1, SendRemoteLists, CurrentParts
  <1>3. IsRequest(e) => IsAction(e.call)
    BY <1>1, <1>2 DEF RequestHeader, MakeHeader, IsAction
  <1>4. \A c \in Call : /\ LoadGrows(c) /\ (RanAtHome(c) => RanAtHome(c)')
                        /\ ~(IsRequest(e) /\ e.call = c) => LoadStays(c)
    BY <1>1, SendLoad
  <1>5. timeouts' \in Nat /\ timeouts <= timeouts'
    BY <1>1, TimeoutsNat
  <1>6. X = {InState(e, "WaitForACK")}
    OBVIOUS
  <1>. HIDE DEF e, X
  <1>7. ASSUME NEW c \in Call, IsRequest(e), e.call = c, EntriesOf(c) = {e}, c \notin todo,
               EntriesOf(c)' = X
        PROVE  Fate(c)
    <2>1. IsSent(c)
      BY <1>1, <1>3, <1>4, <1>6, <1>7 DEF IsSent
    <2>. QED
      BY <1>4, <1>5, <2>1 DEF Fate
  <1>8. \A c \in Call : IsRequest(e) /\ e.call = c /\ EntriesOf(c) = {e} /\ c \notin todo
                        /\ EntriesOf(c)' = X => Fate(c)
    BY <1>7
  <1>9. Changes(e, X)
    BY <1>2
  <1>. QED
    BY <1>4, <1>5, <1>8, <1>9, ChangeFates

LEMMA SendLocalResponseFates ==
    ASSUME ListInv, NEW b \in Board, NEW i \in DOMAIN entries[b], SendLocalResponse(b, i)
    PROVE  Fates
  <1> DEFINE e == entries[b][i]
  <1>1. /\ InPass(b) /\ Send(b, Current(b)) /\ timeouts' = timeouts /\ ran' = ran
        /\ IsResponse(Current(b)) /\ IsRequest(e) /\ HeaderFits(e, Current(b).header)
    BY DEF SendLocalResponse, LocalResponse, Pending, AnsweredBy
  <1>2. Changes(e, {}) /\ e \in HonestEntry(b, Made, Done) /\ Current(b).header \in Header
    BY <1>1, SendLocalResponseLists, ListParts, CurrentParts DEF Entry
  <1>3. IsAction(e.call)
    BY <1>1, <1>2, FitsAction DEF HonestEntry, RequestHeader, MakeHeader, IsAction
  <1>4. \A c \in Call : LoadStays(c) /\ (RanAtHome(c) => RanAtHome(c)')
    BY <1>1, SendLoad DEF IsRequest, IsResponse
  <1>5. timeouts' \in Nat /\ timeouts <= timeouts'
    BY <1>1, TimeoutsNat
  <1>. HIDE DEF e
  <1>. QED
    BY <1>2, <1>3, <1>4, <1>5 DEF Changes, Fates, Fate, Settles

LEMMA SendLocalResponseInVainFates ==
    ASSUME ListInv, NEW b \in Board, SendLocalResponseInVain(b) PROVE Fates
  <1>1. /\ InPass(b) /\ Send(b, Current(b)) /\ timeouts' = timeouts /\ ran' = ran
        /\ IsResponse(Current(b))
    BY DEF SendLocalResponseInVain, LocalResponse, Pending
  <1>2. \A c \in Call : LoadStays(c) /\ (RanAtHome(c) => RanAtHome(c)')
    BY <1>1, SendLoad DEF IsRequest, IsResponse
  <1>. QED
    BY <1>1, <1>2, SendLocalResponseInVainLists, TimeoutsNat, UntouchedFates

-----------------------------------------------------------------------------
(* How often a call may run.  An entry pays for each transmission with a   *)
(* try, and each try costs a timeout.                                      *)

Account(c) ==
    /\ c \in todo => EntriesOf(c) = {} /\ \A d \in Board : Load(d, c) = 0
    /\ \A e \in EntriesOf(c) :
          /\ e.tries \in 0 .. MaxTries /\ e.tries <= timeouts
          /\ e.state = "TransmissionPending"
                => e.tries = 0 /\ \A d \in Board : Load(d, c) = 0
          /\ e.state # "TransmissionPending"
                => IsAction(c) /\ \A d \in Board : Load(d, c) <= e.tries + 1
    /\ \A d \in Board : /\ Load(d, c) <= MaxTries + 1 /\ Load(d, c) <= timeouts + 1
                        /\ ~IsAction(c) => Load(d, c) <= 1
    /\ c \notin todo /\ EntriesOf(c) = {} /\ ~IsAction(c) /\ HomeListens(c)
          => RanAtHome(c)

AccountInv == ListInv /\ \A c \in Call : Account(c)

\* Only an action is waited for, so only an action times out.
LEMMA WaitingIsAction ==
    ASSUME AccountInv, NEW b \in Board, InPass(b), IsRequest(Current(b)),
           Current(b).state # "TransmissionPending"
    PROVE  IsAction(Current(b).call)
  <1> DEFINE c == Current(b).call
  <1>1. c \in Call /\ EntriesOf(c) = {Current(b)}
    <2>1. ListInv
      BY DEF AccountInv
    <2>2. /\ entry[b] \in DOMAIN entries[b] /\ Current(b) = entries[b][entry[b]]
          /\ Current(b) \in Entry
      BY <2>1, CurrentParts
    <2>. QED
      BY <2>1, <2>2, EntryIsSingle DEF Entry
  <1>2. Account(c)
    BY <1>1 DEF AccountInv
  <1>. QED
    BY <1>1, <1>2 DEF Account

LEMMA RetransmitFates ==
    ASSUME AccountInv, NEW b \in Board, Retransmit(b) PROVE Fates
  <1> DEFINE e == Current(b)
             X == {NextTry(e)}
  <1>0. ListInv
    BY DEF AccountInv
  <1>1. /\ InPass(b) /\ Send(b, e) /\ timeouts' = timeouts + 1 /\ ran' = ran
        /\ e.state # "TransmissionPending" /\ e.tries < MaxTries
    BY DEF Retransmit, Expired
  <1>2. Changes(e, X)
    BY <1>0, RetransmitLists
  <1>3. IsRequest(e) => IsAction(e.call)
    BY <1>1, WaitingIsAction
  <1>4. \A c \in Call : /\ LoadGrows(c) /\ (RanAtHome(c) => RanAtHome(c)')
                        /\ ~(IsRequest(e) /\ e.call = c) => LoadStays(c)
    BY <1>0, <1>1, SendLoad
  <1>5. timeouts' \in Nat /\ timeouts <= timeouts'
    BY <1>0, <1>1, TimeoutsNat
  <1>6. X = {NextTry(e)}
    OBVIOUS
  <1>. HIDE DEF e, X
  <1>7. ASSUME NEW c \in Call, IsRequest(e), e.call = c, EntriesOf(c) = {e}, c \notin todo,
               EntriesOf(c)' = X
        PROVE  Fate(c)
    <2>1. IsSentAgain(c)
      BY <1>1, <1>3, <1>4, <1>6, <1>7 DEF IsSentAgain
    <2>. QED
      BY <1>4, <1>5, <2>1 DEF Fate
  <1>8. \A c \in Call : IsRequest(e) /\ e.call = c /\ EntriesOf(c) = {e} /\ c \notin todo
                        /\ EntriesOf(c)' = X => Fate(c)
    BY <1>7
  <1>. QED
    BY <1>0, <1>2, <1>4, <1>5, <1>8, ChangeFates

LEMMA GiveUpFates == ASSUME AccountInv, NEW b \in Board, GiveUp(b) PROVE Fates
  <1> DEFINE e == Current(b)
  <1>0. ListInv
    BY DEF AccountInv
  <1>1. /\ InPass(b) /\ wire' = wire /\ timeouts' = timeouts + 1 /\ ran' = ran
        /\ e.state # "TransmissionPending"
    BY DEF GiveUp, Expired, network
  <1>2. Changes(e, {})
    BY <1>0, GiveUpLists
  <1>3. IsRequest(e) => IsAction(e.call)
    BY <1>1, WaitingIsAction
  <1>4. \A c \in Call : LoadStays(c) /\ (RanAtHome(c) => RanAtHome(c)')
    BY <1>0, <1>1, LoadSame
  <1>5. timeouts' \in Nat /\ timeouts <= timeouts'
    BY <1>0, <1>1, TimeoutsNat
  <1>. HIDE DEF e
  <1>. QED
    BY <1>2, <1>3, <1>4, <1>5 DEF Changes, Fates, Fate, Settles

LEMMA PassFates == ASSUME AccountInv, NEW b \in Board, Pass(b) PROVE Fates
  <1>0. ListInv
    BY DEF AccountInv
  <1>1. CASE Skip(b)
    BY <1>0, <1>1, SkipLists, QuietFates DEF Skip, network
  <1>2. CASE EndPass(b)
    BY <1>0, <1>2, SameLists, QuietFates DEF EndPass, network, history
  <1>. QED
    BY <1>0, <1>1, <1>2, SendEventFates, SendLocalRequestFates, SendLocalResponseFates,
       SendLocalResponseInVainFates, SendRemoteFates, RetransmitFates, GiveUpFates DEF Pass

\* Every step treats every call in one of the five ways.
LEMMA NextFates == ASSUME AccountInv, [Next]_vars PROVE Fates
  <1>0. ListInv
    BY DEF AccountInv
  <1>1. CASE UNCHANGED vars
    BY <1>0, <1>1, SameLists, QuietFates DEF vars, network, history
  <1>2. ASSUME NEW b \in Board, StartUpdate(b) \/ EndReceive(b) PROVE Fates
    BY <1>0, <1>2, SameLists, QuietFates DEF StartUpdate, EndReceive, network, history
  <1>3. ASSUME NEW b \in Board, Work(b) PROVE Fates
    BY <1>0, <1>3, WorkLists, QuietFates DEF Work, network
  <1>4. ASSUME NEW b \in Board, NEW k \in DOMAIN wire[b], Receive(b, k) PROVE Fates
    BY <1>0, <1>4, ReceiveRequestFates, ReplyFates DEF Receive
  <1>5. ASSUME NEW b \in Board, Lose(b) PROVE Fates
    BY <1>0, <1>5, LoseFates
  <1>6. CASE Next
    BY <1>2, <1>3, <1>4, <1>5, <1>6, PassFates DEF Next
  <1>. QED
    BY <1>1, <1>6

LEMMA AccountType ==
    ASSUME ListInv, NEW c \in Call
    PROVE  /\ timeouts \in Nat /\ \A d \in Board : Load(d, c) \in Nat
           /\ \A e \in EntriesOf(c) : e \in Entry
  <1>1. Held(entries[Home[Source[c]]], c) \subseteq Entry
    <2>1. entries[Home[Source[c]]] \in Seq(Entry)
      BY CallerBoard, ListParts
    <2>. QED
      BY <2>1, ElementOfSeq DEF Held, Slots
  <1>. QED
    BY <1>1, TimeoutsNat, ListParts, CountType DEF EntriesOf

\* The account of a call is right again after each of them.
LEMMA AccountStep ==
    ASSUME ListInv, NEW c \in Call, Account(c), Fate(c), todo' \subseteq todo,
           \A d \in Board : Load(d, c)' \in Nat
    PROVE  Account(c)'
  <1>0. /\ timeouts \in Nat /\ timeouts' \in Nat /\ timeouts <= timeouts'
        /\ \A d \in Board : Load(d, c) \in Nat
        /\ RanAtHome(c) => RanAtHome(c)'
        /\ MaxTries = 2
    BY AccountType DEF Fate, MaxTries
  <1>1. CASE Untouched(c) /\ LoadStays(c)
    <2>1. CASE c \in todo \ todo'
      <3>1. EntriesOf(c)' = {RequestEntry(c)} /\ \A d \in Board : Load(d, c)' = 0
        BY <1>0, <1>1, <2>1 DEF Untouched, Account, LoadStays
      <3>2. RequestEntry(c).tries = 0 /\ RequestEntry(c).state = "TransmissionPending"
        BY DEF RequestEntry, MakeEntry
      <3>. QED
        BY <1>0, <2>1, <3>1, <3>2 DEF Account
    <2>2. CASE c \notin todo \ todo'
      <3>1. EntriesOf(c)' = EntriesOf(c) /\ \A d \in Board : Load(d, c)' <= Load(d, c)
        BY <1>1, <2>2 DEF Untouched, LoadStays
      <3>2. c \in todo' <=> c \in todo
        BY <2>2
      <3>. QED
        BY <1>0, <3>1, <3>2 DEF Account
    <2>. QED
      BY <2>1, <2>2
  <1>2. CASE Settles(c)
    BY <1>0, <1>2 DEF Settles, Account, LoadStays
  <1>3. CASE IsAcknowledged(c)
    <2>1. PICK e \in EntriesOf(c) : EntriesOf(c)' = {InState(e, "WaitForResponse")}
      BY <1>3 DEF IsAcknowledged
    <2>2. /\ InState(e, "WaitForResponse").tries = e.tries
          /\ InState(e, "WaitForResponse").state = "WaitForResponse"
      BY AccountType DEF InState, Entry
    <2>3. e.tries \in 0 .. MaxTries /\ e.tries <= timeouts
          /\ \A d \in Board : Load(d, c) <= e.tries + 1
      BY <1>0 DEF Account
    <2>. QED
      BY <1>0, <1>3, <2>1, <2>2, <2>3 DEF IsAcknowledged, Account, LoadStays
  <1>4. CASE IsSent(c)
    <2>1. PICK e \in EntriesOf(c) :
             /\ e.state = "TransmissionPending"
             /\ \/ /\ EntriesOf(c)' = {}
                   /\ ~IsAction(c) /\ HomeListens(c) => RanAtHome(c)'
                \/ /\ IsAction(c)
                   /\ \E st \in {"WaitForACK", "WaitForResponse"} :
                         EntriesOf(c)' = {InState(e, st)}
      BY <1>4 DEF IsSent
    <2>2. e.tries = 0 /\ \A d \in Board : Load(d, c)' <= 1
      BY <1>0, <1>4, <2>1 DEF IsSent, Account, LoadGrows
    <2>3. CASE EntriesOf(c)' = {} /\ (~IsAction(c) /\ HomeListens(c) => RanAtHome(c)')
      BY <1>0, <1>4, <2>2, <2>3 DEF IsSent, Account
    <2>4. ASSUME IsAction(c), NEW st \in {"WaitForACK", "WaitForResponse"},
                 EntriesOf(c)' = {InState(e, st)}
          PROVE  Account(c)'
      <3>1. InState(e, st).tries = 0 /\ InState(e, st).state # "TransmissionPending"
        BY <2>2, AccountType DEF InState, Entry
      <3>. QED
        BY <1>0, <1>4, <2>2, <2>4, <3>1 DEF IsSent, Account
    <2>. QED
      BY <2>1, <2>3, <2>4
  <1>5. CASE IsSentAgain(c)
    <2>1. PICK e \in EntriesOf(c) : /\ e.state # "TransmissionPending" /\ e.tries < MaxTries
                                    /\ EntriesOf(c)' = {NextTry(e)}
      BY <1>5 DEF IsSentAgain
    <2>2. NextTry(e).tries = e.tries + 1 /\ NextTry(e).state = e.state
      BY AccountType DEF NextTry, Entry
    <2>3. /\ e.tries \in 0 .. MaxTries /\ e.tries <= timeouts
          /\ \A d \in Board : Load(d, c) <= e.tries + 1
      BY <2>1 DEF Account
    <2>4. \A d \in Board : Load(d, c)' <= e.tries + 2
      BY <1>0, <1>5, <2>3 DEF IsSentAgain, LoadGrows
    <2>. QED
      BY <1>0, <1>5, <2>1, <2>2, <2>3, <2>4 DEF IsSentAgain, Account
  <1>. QED
    BY <1>1, <1>2, <1>3, <1>4, <1>5 DEF Fate

LEMMA AccountInvStep == AccountInv /\ [Next]_vars => AccountInv'
  <1>. SUFFICES ASSUME AccountInv, [Next]_vars PROVE AccountInv'
    OBVIOUS
  <1>1. Fates /\ ListInv
    BY NextFates DEF AccountInv
  <1>2. ListInv'
    BY <1>1, HonestInvStep DEF ListInv, Fates
  <1>3. ASSUME NEW c \in Call PROVE Account(c)'
    <2>1. \A d \in Board : Load(d, c)' \in Nat
      <3>1. TypeOK'
        BY <1>2 DEF ListInv, HonestInv, TypeInv
      <3>2. \A d \in Board : ran'[d][c] \in Nat /\ wire'[d] \in Seq(Packet)
        BY <3>1 DEF TypeOK
      <3>. QED
        BY <3>2, CopiesFinite DEF Load
    <2>. QED
      BY <1>1, <2>1, AccountStep DEF Fates, AccountInv
  <1>. QED
    BY <1>2, <1>3 DEF AccountInv

LEMMA AccountInvInit == Init => AccountInv
  <1>. SUFFICES ASSUME Init PROVE AccountInv
    OBVIOUS
  <1>1. ListInv
    BY HonestInvInit DEF Init, ListInv, SingleInv, Single
  <1>2. ASSUME NEW c \in Call PROVE Account(c)
    <2>1. EntriesOf(c) = {}
      BY CallerBoard DEF Init, EntriesOf, Held, Slots
    <2>2. ASSUME NEW d \in Board PROVE Load(d, c) = 0
      <3>1. Copies(wire[d], c) = {} /\ ran[d][c] = 0
        BY DEF Init, Copies
      <3>. QED
        BY <3>1, FS_EmptySet DEF Load
    <2>3. timeouts = 0 /\ c \in todo
      BY DEF Init
    <2>. QED
      BY <2>1, <2>2, <2>3 DEF Account, MaxTries
  <1>. QED
    BY <1>1, <1>2 DEF AccountInv

\* The account of a call is kept by every step: what ran and what is on the way was
\* paid for by tries (dispatcher.cpp, handleWaitingMessages).
THEOREM AccountAlways == Spec => []AccountInv
  BY AccountInvInit, AccountInvStep, PTL DEF Spec

\* A handler runs at most three times for one call, and at most once more than
\* acknowledge timeouts have expired.
THEOREM HandlerRunsPerTry == Spec => []RunsAtMostOncePerTry
  <1>1. AccountInv => RunsAtMostOncePerTry
    <2>. SUFFICES ASSUME AccountInv, NEW b \in Board, NEW c \in Call
                  PROVE  ran[b][c] <= MaxTries + 1 /\ ran[b][c] <= timeouts + 1
      BY DEF RunsAtMostOncePerTry
    <2>1. Load(b, c) <= MaxTries + 1 /\ Load(b, c) <= timeouts + 1
      BY DEF AccountInv, Account
    <2>2. /\ Count(b, c) \in Nat /\ ran[b][c] \in Nat /\ timeouts \in Nat
          /\ Load(b, c) = ran[b][c] + Count(b, c)
      BY ListParts, CountType, TimeoutsNat DEF AccountInv
    <2>. QED
      BY <2>1, <2>2 DEF MaxTries
  <1>. QED
    BY <1>1, AccountAlways, PTL

\* An event runs the listeners of each board at most once, and those of its own
\* board exactly once by the time handleWaitingMessages has sent it.
THEOREM EventReachesListenersOnce == Spec => []EventRunsOnce
  <1>1. AccountInv => EventRunsOnce
    <2>. SUFFICES ASSUME AccountInv, NEW c \in Call, ~IsAction(c)
                  PROVE  /\ \A b \in Board : ran[b][c] <= 1
                         /\ c \notin todo /\ ~Listed(c, "REQUEST") /\ HomeListens(c)
                               => ran[Home[Source[c]]][c] = 1
      BY DEF EventRunsOnce, HomeListens
    <2>0. ListInv /\ Account(c)
      BY DEF AccountInv
    <2>1. \A b \in Board : ran[b][c] \in Nat /\ ran[b][c] <= 1
      <3>1. ASSUME NEW b \in Board
            PROVE  /\ Count(b, c) \in Nat /\ ran[b][c] \in Nat
                   /\ Load(b, c) = ran[b][c] + Count(b, c) /\ Load(b, c) <= 1
        BY <2>0, ListParts, CountType DEF Account
      <3>. QED
        BY <3>1
    <2>2. ~Listed(c, "REQUEST") => EntriesOf(c) = {}
      BY CallerBoard DEF Listed, EntriesOf, Held, Slots, IsRequest
    <2>3. c \notin todo /\ ~Listed(c, "REQUEST") /\ HomeListens(c)
             => ran[Home[Source[c]]][c] > 0
      BY <2>0, <2>2 DEF Account, RanAtHome
    <2>. QED
      BY <2>1, <2>3, CallerBoard
  <1>. QED
    BY <1>1, AccountAlways, PTL

-----------------------------------------------------------------------------
(* Answers in the lists                                                    *)

HasAnswer(s, c) == \E i \in DOMAIN s : IsResponse(s[i]) /\ s[i].call = c
AnswerListed(c) == \E b \in Board : HasAnswer(entries[b], c)

LEMMA RemoveAnswer ==
    ASSUME NEW s \in Seq(Entry), NEW k \in 1 .. Len(s), NEW c, HasAnswer(s, c),
           ~(IsResponse(s[k]) /\ s[k].call = c)
    PROVE  HasAnswer(RemoveAt(s, k), c)
  <1> DEFINE r == RemoveAt(s, k)
  <1>1. PICK i \in DOMAIN s : IsResponse(s[i]) /\ s[i].call = c
    BY DEF HasAnswer
  <1>2. i \in 1 .. Len(s) /\ i # k
    BY <1>1
  <1>3. /\ r \in Seq(Entry) /\ Len(r) = Len(s) - 1
        /\ \A j \in 1 .. Len(s) - 1 : r[j] = IF j < k THEN s[j] ELSE s[j + 1]
    BY RemoveAtList
  <1>. HIDE DEF r
  <1>4. DOMAIN r = 1 .. Len(s) - 1 /\ Len(s) \in Nat
    BY <1>3
  <1>5. CASE i < k
    <2>1. i \in DOMAIN r /\ r[i] = s[i]
      BY <1>2, <1>3, <1>4, <1>5
    <2>. QED
      BY <1>1, <2>1 DEF HasAnswer, r
  <1>6. CASE i > k
    <2>1. i - 1 \in DOMAIN r /\ r[i - 1] = s[i]
      BY <1>2, <1>3, <1>4, <1>6
    <2>. QED
      BY <1>1, <2>1 DEF HasAnswer, r
  <1>. QED
    BY <1>2, <1>5, <1>6

LEMMA UpdateAnswer ==
    ASSUME NEW s \in Seq(Entry), NEW k \in 1 .. Len(s), NEW c, HasAnswer(s, c),
           NEW f, f.header = s[k].header, f.call = s[k].call
    PROVE  HasAnswer([s EXCEPT ![k] = f], c)
  BY DEF HasAnswer, IsResponse

\* The list of b becomes s, apart from what user code adds, and an answer is only
\* submitted by putting it into the list.
Submits(b, s) ==
    /\ \A d \in Board : d # b => entries'[d] = entries[d]
    /\ \A c \in Call : HasAnswer(s, c) \/ c \in answered' \ answered
                          => HasAnswer(entries'[b], c)

LEMMA NoUserCodeSubmits ==
    ASSUME TypeOK, NEW b \in Board, NEW s, NEW i, NoUserCode(b, s, i) PROVE Submits(b, s)
  BY DEF TypeOK, NoUserCode, Submits

LEMMA UserCodeSubmits ==
    ASSUME TypeOK, NEW b \in Board, NEW s \in Seq(Entry), NEW i,
           NEW held \in SUBSET ResponseHandle,
           NEW reply \in Replies(held), NEW call \in Calls(b),
           UserCode(b, s, i, held, reply, call)
    PROVE  Submits(b, s)
  <1> DEFINE r == AfterUserCode(s, reply, call)
             m == Len(reply)
             S == {x \in held \X ResponseType : reply = <<x>>}
             T == {c \in todo : call = <<c>>}
  <1>1. reply \in AtMostOne(S) /\ call \in AtMostOne(T)
    BY DEF Replies, Calls, AtMostOne
  <1>2. \A x \in S : ResponseEntry(x[1], x[2]) \in Entry
    BY ResponseEntryType
  <1>3. \A c \in T : RequestEntry(c) \in Entry
    BY RequestEntryType DEF TypeOK
  <1>4. \A x \in S : /\ IsResponse(ResponseEntry(x[1], x[2]))
                     /\ ResponseEntry(x[1], x[2]).call = x[1].call
                     /\ reply = <<x>>
    BY AnswerAssumption DEF IsResponse, ResponseEntry, MakeEntry, MakeHeader
  <1>. HIDE DEF S, T
  <1>5. /\ r \in Seq(Entry) /\ m \in {0, 1} /\ Len(r) = m + Len(s) + Len(call)
        /\ Len(call) \in {0, 1}
        /\ \A j \in 1 .. m : \E x \in S : r[j] = ResponseEntry(x[1], x[2])
        /\ \A j \in m + 1 .. m + Len(s) : r[j] = s[j - m]
    BY <1>1, <1>2, <1>3, AfterUserCodeList
  <1>6. /\ \A d \in Board : entries'[d] = IF d = b THEN r ELSE entries[d]
        /\ answered' = answered \cup {x[1].call : x \in ToSet(reply)}
    BY DEF UserCode, TypeOK
  <1>. HIDE DEF r, m
  <1>7. ASSUME NEW c, HasAnswer(s, c) PROVE HasAnswer(r, c)
    <2>1. PICK j \in DOMAIN s : IsResponse(s[j]) /\ s[j].call = c
      BY <1>7 DEF HasAnswer
    <2>2. j + m \in m + 1 .. m + Len(s) /\ j + m \in DOMAIN r /\ (j + m) - m = j
      BY <1>5, <2>1
    <2>3. r[j + m] = s[j]
      BY <1>5, <2>2
    <2>. QED
      BY <2>1, <2>2, <2>3 DEF HasAnswer
  <1>8. ASSUME NEW c, c \in answered' \ answered PROVE HasAnswer(r, c)
    <2>1. PICK x \in ToSet(reply) : x[1].call = c
      BY <1>6, <1>8
    <2>2. reply = <<x>>
      BY <2>1 DEF Replies, AtMostOne, ToSet
    <2>3. m = 1
      BY <2>2 DEF m
    <2>4. PICK y \in S : r[1] = ResponseEntry(y[1], y[2])
      BY <1>5, <2>3
    <2>5. y = x
      BY <1>4, <2>2, <2>4
    <2>6. 1 \in DOMAIN r
      BY <1>5, <2>3
    <2>. QED
      BY <1>4, <2>1, <2>4, <2>5, <2>6 DEF HasAnswer
  <1>. QED
    BY <1>6, <1>7, <1>8 DEF Submits

LEMMA DeliverSubmits ==
    ASSUME TypeOK, NEW b \in Board, NEW p \in Packet, NEW s \in Seq(Entry), NEW i,
           Deliver(b, p, s, i)
    PROVE  Submits(b, s)
  <1>1. CASE DeliversTo(b, p.header)
    <2> DEFINE held == IF p.header.destination = EventAddress
                       THEN handles[b] ELSE handles[b] \cup {HandleFor(p)}
    <2>1. held \in SUBSET ResponseHandle
      <3>1. p.header.destination # EventAddress => HandleFor(p) \in ResponseHandle
        BY DEF HandleFor, ResponseHandle, Packet, Header
      <3>2. handles[b] \in SUBSET ResponseHandle
        BY DEF TypeOK
      <3>. QED
        BY <3>1, <3>2
    <2>2. PICK reply \in Replies(held), call \in Calls(b) :
             UserCode(b, s, i, held, reply, call)
      BY <1>1 DEF Deliver
    <2>. HIDE DEF held
    <2>. QED
      BY <2>1, <2>2, UserCodeSubmits
  <1>2. CASE ~DeliversTo(b, p.header)
    BY <1>2, NoUserCodeSubmits DEF Deliver
  <1>. QED
    BY <1>1, <1>2

LEMMA CallBackSubmits ==
    ASSUME TypeOK, NEW b \in Board, NEW e, NEW p, NEW s \in Seq(Entry), NEW i,
           CallBack(b, e, p, s, i)
    PROVE  Submits(b, s)
  <1>1. handles[b] \in SUBSET ResponseHandle
    BY DEF TypeOK
  <1>. QED
    BY <1>1, UserCodeSubmits DEF CallBack

\* An answer that is listed, or submitted by this step, is listed after it.
Keeps(c) == AnswerListed(c) \/ c \in answered' \ answered => AnswerListed(c)'

LEMMA SubmitsKeeps ==
    ASSUME NEW b \in Board, NEW s, Submits(b, s), NEW c \in Call,
           HasAnswer(entries[b], c) => HasAnswer(s, c)
    PROVE  Keeps(c)
  BY DEF Keeps, Submits, AnswerListed

LEMMA SubmitsRemoved ==
    ASSUME ListInv, NEW b \in Board, NEW k \in DOMAIN entries[b], NEW c \in Call,
           Submits(b, RemoveAt(entries[b], k)),
           ~(IsResponse(entries[b][k]) /\ entries[b][k].call = c)
    PROVE  Keeps(c)
  <1>1. entries[b] \in Seq(Entry) /\ k \in 1 .. Len(entries[b])
    BY ListParts
  <1>. QED
    BY <1>1, RemoveAnswer, SubmitsKeeps

LEMMA SubmitsUpdated ==
    ASSUME ListInv, NEW b \in Board, NEW k \in DOMAIN entries[b], NEW c \in Call,
           NEW f, f.header = entries[b][k].header, f.call = entries[b][k].call,
           Submits(b, [entries[b] EXCEPT ![k] = f])
    PROVE  Keeps(c)
  <1>1. entries[b] \in Seq(Entry) /\ k \in 1 .. Len(entries[b])
    BY ListParts
  <1>. QED
    BY <1>1, UpdateAnswer, SubmitsKeeps

-----------------------------------------------------------------------------
(* Acknowledged answers                                                    *)

IsAckedAnswer(p, c) == IsResponse(p) /\ p.header.isAcknowledge /\ p.call = c
AckedAnswer(c) == \E b \in Board : \E k \in DOMAIN wire[b] : IsAckedAnswer(wire[b][k], c)

LEMMA SendAcks ==
    ASSUME ListInv, NEW b \in Board, NEW e \in HonestEntry(b, Made, Done), Send(b, e),
           NEW c, AckedAnswer(c)'
    PROVE  AckedAnswer(c)
  <1>a. PICK d \in Board : \E k \in DOMAIN wire'[d] : IsAckedAnswer(wire'[d][k], c)
    BY DEF AckedAnswer
  <1>1. PICK k \in DOMAIN wire'[d] : IsAckedAnswer(wire'[d][k], c)
    BY <1>a
  <1>2. ~IsAckedAnswer(PacketOf(e), c)
    BY DEF IsAckedAnswer, PacketOf, HonestEntry
  <1>3. /\ wire[d] \in Seq(Packet) /\ PacketOf(e) \in Packet
        /\ wire'[d] = IF d = b THEN wire[d] ELSE wire[d] \o <<PacketOf(e)>>
    <2>1. TypeOK
      BY ListParts
    <2>2. wire[d] \in Seq(Packet)
      BY <2>1 DEF TypeOK
    <2>3. PacketOf(e) \in Packet
      BY DEF PacketOf, Packet, HonestEntry, Entry
    <2>. QED
      BY <2>2, <2>3 DEF Send, Sent
  <1>4. CASE d = b
    BY <1>1, <1>3, <1>4 DEF AckedAnswer
  <1>5. CASE d # b
    <2> DEFINE w == wire[d]
               p == PacketOf(e)
               r == w \o <<p>>
    <2>1. /\ DOMAIN r = 1 .. Len(w) + 1 /\ DOMAIN w = 1 .. Len(w) /\ Len(w) \in Nat
          /\ r[Len(w) + 1] = p /\ \A j \in 1 .. Len(w) : r[j] = w[j]
      <3>. HIDE DEF w, p
      <3>1. w \in Seq(Packet) /\ p \in Packet
        BY <1>3 DEF w, p
      <3>. QED
        BY <3>1, ConcatProperties
    <2>2. k \in DOMAIN r /\ IsAckedAnswer(r[k], c)
      BY <1>1, <1>3, <1>5
    <2>. HIDE DEF r
    <2>3. k \in DOMAIN w /\ r[k] = w[k]
      BY <1>2, <2>1, <2>2
    <2>. QED
      BY <2>2, <2>3 DEF AckedAnswer
  <1>. QED
    BY <1>4, <1>5

\* Of the packet at k, only an acknowledgement is put on the way.
LEMMA DropAcks ==
    ASSUME ListInv, NEW b \in Board, NEW k \in DOMAIN wire[b], NEW acks \in BOOLEAN,
           Drop(b, k, acks), acks => wire[b][k].header.destination # EventAddress,
           NEW c, AckedAnswer(c)'
    PROVE  AckedAnswer(c) \/ (acks /\ IsResponse(wire[b][k]) /\ wire[b][k].call = c)
  <1> DEFINE a == AckOf(wire[b][k])
             q == IF acks THEN <<a>> ELSE <<>>
             v == RemoveAt(wire[b], k)
  <1>a. PICK d \in Board : \E j \in DOMAIN wire'[d] : IsAckedAnswer(wire'[d][j], c)
    BY DEF AckedAnswer
  <1>1. PICK j \in DOMAIN wire'[d] : IsAckedAnswer(wire'[d][j], c)
    BY <1>a
  <1>2. /\ wire \in [Board -> Seq(Packet)] /\ wire[d] \in Seq(Packet)
        /\ wire[b] \in Seq(Packet) /\ k \in 1 .. Len(wire[b]) /\ wire[b][k] \in Packet
    <2>1. TypeOK
      BY ListParts
    <2>2. wire \in [Board -> Seq(Packet)]
      BY <2>1 DEF TypeOK
    <2>. QED
      BY <2>2, ElementOfSeq
  <1>3. wire'[d] = IF d = b THEN v ELSE wire[d] \o q
    BY <1>2 DEF Drop, Sent
  <1>4. IsAckedAnswer(a, c) => IsResponse(wire[b][k]) /\ wire[b][k].call = c
    BY DEF IsAckedAnswer, AckOf, MakeHeader, IsResponse
  <1>5. acks => a \in Packet
    BY <1>2 DEF AckOf, MakeHeader, Packet, Header
  <1>6. /\ DOMAIN v = 1 .. Len(wire[b]) - 1
        /\ \A i \in 1 .. Len(wire[b]) - 1 :
              v[i] = IF i < k THEN wire[b][i] ELSE wire[b][i + 1]
    BY <1>2, RemoveAtList
  <1>. HIDE DEF a, v
  <1>7. CASE d = b
    <2>1. j \in 1 .. Len(wire[b]) - 1
          /\ v[j] = IF j < k THEN wire[b][j] ELSE wire[b][j + 1]
      BY <1>1, <1>3, <1>6, <1>7
    <2>2. \E i \in DOMAIN wire[b] : v[j] = wire[b][i]
      BY <1>2, <2>1
    <2>. QED
      BY <1>1, <1>3, <1>7, <2>2 DEF AckedAnswer
  <1>8. CASE d # b
    <2> DEFINE w == wire[d]
               r == w \o q
    <2>1. q \in Seq(Packet) /\ Len(q) \in {0, 1} /\ (~acks => Len(q) = 0)
          /\ \A i \in 1 .. Len(q) : q[i] = a
      BY <1>5
    <2>2. /\ DOMAIN r = 1 .. Len(w) + Len(q) /\ DOMAIN w = 1 .. Len(w) /\ Len(w) \in Nat
          /\ \A i \in 1 .. Len(w) : r[i] = w[i]
          /\ \A i \in Len(w) + 1 .. Len(w) + Len(q) : r[i] = a
      <3>. HIDE DEF q, w
      <3>1. w \in Seq(Packet)
        BY <1>2 DEF w
      <3>. QED
        BY <2>1, <3>1, ConcatProperties
    <2>3. j \in DOMAIN r /\ IsAckedAnswer(r[j], c)
      BY <1>1, <1>3, <1>8
    <2>. HIDE DEF r, q
    <2>4. CASE j \in 1 .. Len(w)
      BY <2>2, <2>3, <2>4 DEF AckedAnswer
    <2>5. CASE j \notin 1 .. Len(w)
      <3>1. r[j] = a /\ acks
        BY <2>1, <2>2, <2>3, <2>5
      <3>. QED
        BY <1>4, <2>3, <3>1
    <2>. QED
      BY <2>4, <2>5
  <1>. QED
    BY <1>7, <1>8

LEMMA LoseAcks ==
    ASSUME ListInv, NEW b \in Board, Lose(b), NEW c, AckedAnswer(c)' PROVE AckedAnswer(c)
  <1>1. PICK k \in DOMAIN wire[b] : wire' = [wire EXCEPT ![b] = RemoveAt(@, k)]
    BY DEF Lose
  <1>a. PICK d \in Board : \E j \in DOMAIN wire'[d] : IsAckedAnswer(wire'[d][j], c)
    BY DEF AckedAnswer
  <1>2. PICK j \in DOMAIN wire'[d] : IsAckedAnswer(wire'[d][j], c)
    BY <1>a
  <1>3. /\ wire \in [Board -> Seq(Packet)] /\ wire[b] \in Seq(Packet)
        /\ k \in 1 .. Len(wire[b])
    <2>1. TypeOK
      BY ListParts
    <2>. QED
      BY <2>1 DEF TypeOK
  <1>4. wire'[d] = IF d = b THEN RemoveAt(wire[b], k) ELSE wire[d]
    BY <1>1, <1>3
  <1>5. CASE d = b
    <2> DEFINE v == RemoveAt(wire[b], k)
    <2>1. /\ DOMAIN v = 1 .. Len(wire[b]) - 1
          /\ \A i \in 1 .. Len(wire[b]) - 1 :
                v[i] = IF i < k THEN wire[b][i] ELSE wire[b][i + 1]
      BY <1>3, RemoveAtList
    <2>. HIDE DEF v
    <2>2. j \in DOMAIN v /\ IsAckedAnswer(v[j], c)
      BY <1>2, <1>4, <1>5 DEF v
    <2>3. \E i \in DOMAIN wire[b] : v[j] = wire[b][i]
      BY <1>3, <2>1, <2>2, SMTT(30)
    <2>. QED
      BY <2>2, <2>3 DEF AckedAnswer
  <1>6. CASE d # b
    BY <1>2, <1>4, <1>6 DEF AckedAnswer
  <1>. QED
    BY <1>5, <1>6

-----------------------------------------------------------------------------
(* What becomes of a call and of its answer                                *)

\* Its caller waits no longer: the callback was called, or the call given up.
Over(c) == got[c] # <<>> \/ <<c, "REQUEST">> \in gaveUp
AnswerGivenUp(c) == \E t \in ResponseType : <<c, t>> \in gaveUp

Outcome(c) ==
    /\ got[c] \in {<<>>, <<c>>}
    /\ got[c] # <<>> => c \notin todo /\ EntriesOf(c) = {}
    /\ c \notin todo /\ CanRun(c)
          => EntriesOf(c) # {} \/ Handled(c) \/ <<c, "REQUEST">> \in gaveUp
    /\ c \notin todo /\ c \in WithCallback => EntriesOf(c) # {} \/ Over(c)
    /\ c \in WithCallback /\ AckedAnswer(c) => Over(c)
    /\ c \in WithCallback /\ c \in answered
          => AnswerListed(c) \/ Over(c) \/ AnswerGivenUp(c)

OutcomeInv == AccountInv /\ OrderedInv /\ \A c \in Call : Outcome(c)

\* A step leaves c its entry, or ends it for a reason.
Continues(c) == c \notin todo /\ EntriesOf(c) # {} /\ EntriesOf(c)' # {}
Ends(c) ==
    /\ c \notin todo /\ EntriesOf(c) # {} /\ EntriesOf(c)' = {}
    /\ CanRun(c) => Handled(c)' \/ <<c, "REQUEST">> \in gaveUp'
    /\ c \in WithCallback => Over(c)'

\* It keeps the answer and acknowledges it only when the callback has it.
AnswerSafe(c) ==
    c \in WithCallback =>
        /\ AckedAnswer(c)' => AckedAnswer(c) \/ Over(c)'
        /\ AnswerListed(c) \/ c \in answered' \ answered
              => AnswerListed(c)' \/ Over(c)' \/ AnswerGivenUp(c)'

Course(c) ==
    /\ \/ got'[c] = got[c] /\ (Untouched(c) \/ Continues(c) \/ Ends(c))
       \/ got'[c] = Append(got[c], c) /\ Ends(c)
    /\ AnswerSafe(c)

Courses == gaveUp \subseteq gaveUp' /\ \A c \in Call : Course(c)

LEMMA OutcomeStep ==
    ASSUME NEW c \in Call, Outcome(c), Course(c), todo' \subseteq todo,
           gaveUp \subseteq gaveUp', CanRun(c) /\ Handled(c) => Handled(c)'
    PROVE  Outcome(c)'
  <1>1. /\ got'[c] \in {<<>>, <<c>>}
        /\ got[c] # <<>> => got'[c] # <<>>
        /\ got'[c] # <<>> => c \notin todo' /\ EntriesOf(c)' = {}
    <2>1. CASE got'[c] = got[c]
      BY <2>1 DEF Outcome, Course, Untouched, Continues, Ends
    <2>2. CASE got'[c] = Append(got[c], c) /\ Ends(c)
      <3>1. got[c] = <<>> /\ c \notin todo' /\ EntriesOf(c)' = {}
        BY <2>2 DEF Outcome, Ends
      <3>2. Append(<<>>, c) = <<c>> /\ <<c>> # <<>>
        OBVIOUS
      <3>. QED
        BY <2>2, <3>1, <3>2
    <2>. QED
      BY <2>1, <2>2 DEF Course
  <1>2. Over(c) => Over(c)'
    BY <1>1 DEF Over
  <1>3. AnswerGivenUp(c) => AnswerGivenUp(c)'
    BY DEF AnswerGivenUp
  <1>4. CASE Untouched(c)
    <2>1. CASE c \in todo \ todo'
      <3>1. EntriesOf(c)' # {}
        BY <1>4, <2>1 DEF Untouched
      <3>. QED
        BY <1>1, <1>2, <1>3, <3>1 DEF Outcome, Course, AnswerSafe, Over
    <2>2. CASE c \notin todo \ todo'
      <3>1. EntriesOf(c)' = EntriesOf(c) /\ (c \in todo' <=> c \in todo)
        BY <1>4, <2>2 DEF Untouched
      <3>. QED
        BY <1>1, <1>2, <1>3, <3>1 DEF Outcome, Course, AnswerSafe
    <2>. QED
      BY <2>1, <2>2
  <1>5. CASE Continues(c)
    BY <1>1, <1>2, <1>3, <1>5 DEF Outcome, Course, AnswerSafe, Continues
  <1>6. CASE Ends(c)
    BY <1>1, <1>2, <1>3, <1>6 DEF Outcome, Course, AnswerSafe, Ends
  <1>. QED
    BY <1>4, <1>5, <1>6 DEF Course

\* Steps after which every answer is where it was, at least.
LEMMA SafeAnswers ==
    ASSUME NEW c, Keeps(c), AckedAnswer(c)' => AckedAnswer(c) PROVE AnswerSafe(c)
  BY DEF AnswerSafe, Keeps

LEMMA QuietCourses ==
    ASSUME AllUntouched, UNCHANGED <<got, gaveUp>>, \A c \in Call : AnswerSafe(c)
    PROVE  Courses
  BY DEF AllUntouched, Courses, Course

LEMMA SameKeeps ==
    ASSUME UNCHANGED <<entries, answered>>, NEW c PROVE Keeps(c)
  BY DEF Keeps, AnswerListed

LEMMA SameAcks ==
    ASSUME wire' = wire, NEW c PROVE AckedAnswer(c)' => AckedAnswer(c)
  BY DEF AckedAnswer

\* Steps of the main loop and losses.
LEMMA LoopCourses ==
    ASSUME ListInv, UNCHANGED <<entries, todo, answered, got, gaveUp>>,
           wire' = wire \/ \E b \in Board : Lose(b)
    PROVE  Courses
  <1>1. AllUntouched
    BY SameLists
  <1>2. ASSUME NEW c \in Call PROVE AnswerSafe(c)
    BY SameKeeps, SameAcks, LoseAcks, SafeAnswers
  <1>. QED
    BY <1>1, <1>2, QuietCourses

LEMMA WorkCourses == ASSUME ListInv, NEW b \in Board, Work(b) PROVE Courses
  <1>1. Submits(b, entries[b])
    <2>1. TypeOK /\ handles[b] \in SUBSET ResponseHandle /\ entries[b] \in Seq(Entry)
      BY ListParts DEF TypeOK
    <2>. QED
      BY <2>1, UserCodeSubmits DEF Work
  <1>2. ASSUME NEW c \in Call PROVE AnswerSafe(c)
    <2>1. Keeps(c)
      BY <1>1, SubmitsKeeps
    <2>2. wire' = wire
      BY DEF Work, network
    <2>. QED
      BY <2>1, <2>2, SameAcks, SafeAnswers
  <1>3. UNCHANGED <<got, gaveUp>>
    BY DEF Work
  <1>. QED
    BY <1>2, <1>3, WorkLists, QuietCourses

LEMMA ReceiveRequestCourses ==
    ASSUME ListInv, NEW b \in Board, NEW k, ReceiveRequest(b, k) PROVE Courses
  <1> DEFINE p == wire[b][k]
             acks == DeliversTo(b, p.header) /\ p.header.destination # EventAddress
  <1>1. /\ k \in DOMAIN wire[b] /\ IsRequest(p) /\ Deliver(b, p, entries[b], 0)
        /\ Drop(b, k, acks) /\ acks \in BOOLEAN
        /\ acks => p.header.destination # EventAddress
        /\ UNCHANGED <<got, gaveUp>>
    BY DEF ReceiveRequest, Arrivals, DeliversTo
  <1>2. p \in Packet /\ TypeOK /\ entries[b] \in Seq(Entry)
    BY <1>1, ListParts, HonestParts DEF HonestPacket
  <1>3. Submits(b, entries[b])
    BY <1>1, <1>2, DeliverSubmits
  <1>4. ASSUME NEW c \in Call PROVE AnswerSafe(c)
    <2>1. Keeps(c)
      BY <1>3, SubmitsKeeps
    <2>2. AckedAnswer(c)' => AckedAnswer(c)
      <3>. HIDE DEF acks
      <3>. QED
        BY <1>1, DropAcks DEF IsRequest, IsResponse
    <2>. QED
      BY <2>1, <2>2, SafeAnswers
  <1>. QED
    BY <1>1, <1>4, ReceiveRequestLists, QuietCourses

\* A step that changes the entry e, to none or to the one in X.
LEMMA ChangeCourses ==
    ASSUME NEW e, NEW X, Changes(e, X), gaveUp \subseteq gaveUp',
           \A c \in Call : AnswerSafe(c),
           \A c \in Call : \/ got'[c] = got[c]
                           \/ /\ got'[c] = Append(got[c], c)
                              /\ IsRequest(e) /\ e.call = c /\ X = {},
           \A c \in Call :
              IsRequest(e) /\ e.call = c /\ X = {}
                 => /\ CanRun(c) => Handled(c)' \/ <<c, "REQUEST">> \in gaveUp'
                    /\ c \in WithCallback => Over(c)'
    PROVE  Courses
  <1>1. ASSUME NEW c \in Call PROVE Course(c)
    <2>1. CASE IsRequest(e) /\ e.call = c
      <3>1. EntriesOf(c) = {e} /\ c \notin todo /\ EntriesOf(c)' = X
        BY <2>1 DEF Changes
      <3>2. CASE X = {}
        <4>1. Ends(c)
          BY <2>1, <3>1, <3>2 DEF Ends
        <4>. QED
          BY <4>1 DEF Course
      <3>3. CASE X # {}
        <4>1. Continues(c)
          BY <3>1, <3>3 DEF Continues
        <4>. QED
          BY <3>3, <4>1 DEF Course
      <3>. QED
        BY <3>2, <3>3
    <2>2. CASE ~(IsRequest(e) /\ e.call = c)
      BY <2>2 DEF Changes, Course
    <2>. QED
      BY <2>1, <2>2
  <1>. QED
    BY <1>1 DEF Courses

-----------------------------------------------------------------------------
(* Replies                                                                 *)

\* A header that goes back to the caller of c fits the entry of c.
LEMMA AnswerFits ==
    ASSUME ListInv, NEW b \in Board, NEW c, NEW j \in Slots(entries[b], c),
           NEW header, Answers(header, c)
    PROVE  /\ j \in DOMAIN entries[b] /\ IsRequest(entries[b][j])
           /\ entries[b][j].call = c /\ HeaderFits(entries[b][j], header)
  <1>1. /\ j \in DOMAIN entries[b] /\ IsRequest(entries[b][j]) /\ entries[b][j].call = c
    BY DEF Slots
  <1>2. entries[b][j] \in HonestEntry(b, Made, Done)
    BY <1>1, ListParts
  <1>3. entries[b][j].header = RequestHeader(c)
    BY <1>1, <1>2 DEF HonestEntry
  <1>. QED
    BY <1>1, <1>3 DEF RequestHeader, MakeHeader, HeaderFits, Answers

\* What a reply, its acknowledgement and the entry it fits have to do with a call.
LEMMA ReplyParts ==
    ASSUME DistinctCalls, ListInv, NEW b \in Board, NEW k, IsReply(b, k), AckReply(b, k)
    PROVE  /\ wire[b][k].call \in Done
           /\ \A i \in DOMAIN entries[b] :
                 FirstFit(entries[b], i, wire[b][k].header)
                    => Concerns(wire[b][k], entries[b][i])
           /\ \A c : IsAckedAnswer(wire[b][k], c) => AckedAnswer(c)
           /\ \A c : AckedAnswer(c)' =>
                 \/ AckedAnswer(c)
                 \/ /\ IsResponse(wire[b][k]) /\ wire[b][k].call = c
                    /\ ~wire[b][k].header.isAcknowledge
                    /\ Answers(wire[b][k].header, c) /\ Home[Source[c]] = b
  <1> DEFINE p == wire[b][k]
             acks == /\ ~p.header.isAcknowledge /\ p.header.destination # EventAddress
                     /\ IsComponentAvailable(b, p.header.destination)
  <1>1. /\ k \in DOMAIN wire[b] /\ (IsResponse(p) \/ p.header.isAcknowledge)
        /\ Drop(b, k, acks) /\ acks \in BOOLEAN
        /\ acks => p.header.destination # EventAddress
        /\ acks => ~p.header.isAcknowledge /\ Home[p.header.destination] = b
    BY DEF IsReply, Arrivals, AckReply, IsComponentAvailable
  <1>2. HonestInv /\ p \in HonestPacket(b, Made, Done)
    BY <1>1, ListParts, HonestParts
  <1>3. p.call \in Done
    BY <1>1, <1>2 DEF HonestPacket, IsRequest, IsResponse
  <1>4. \A i \in DOMAIN entries[b] :
           FirstFit(entries[b], i, p.header) => Concerns(p, entries[b][i])
    BY <1>2, ReplyConcerns DEF FirstFit
  <1>. HIDE DEF acks
  <1>5. ASSUME NEW c, AckedAnswer(c)', ~AckedAnswer(c)
        PROVE  /\ IsResponse(p) /\ p.call = c /\ ~p.header.isAcknowledge
               /\ Answers(p.header, c) /\ Home[Source[c]] = b
    <2>1. acks /\ IsResponse(p) /\ p.call = c
      BY <1>1, <1>5, DropAcks
    <2>2. Answers(p.header, c)
      BY <1>1, <1>2, <2>1 DEF HonestPacket
    <2>. QED
      BY <1>1, <2>1, <2>2 DEF Answers
  <1>. QED
    BY <1>1, <1>3, <1>4, <1>5 DEF AckedAnswer

LEMMA IgnoreReplyCourses ==
    ASSUME DistinctCalls, OutcomeInv, NEW b \in Board, NEW k, IgnoreReply(b, k) PROVE Courses
  <1>0. ListInv /\ \A c \in Call : Outcome(c)
    BY DEF OutcomeInv, AccountInv
  <1>1. /\ IsReply(b, k) /\ AckReply(b, k) /\ NoFit(entries[b], wire[b][k].header)
        /\ UNCHANGED <<entries, todo, answered, got, gaveUp>>
    BY DEF IgnoreReply, history
  <1>2. ASSUME NEW c \in WithCallback, AckedAnswer(c)', ~AckedAnswer(c) PROVE Over(c)'
    <2>1. /\ wire[b][k].call = c /\ Answers(wire[b][k].header, c) /\ Home[Source[c]] = b
          /\ c \in Done
      BY <1>0, <1>1, <1>2, ReplyParts
    <2>2. c \in Call /\ c \notin todo
      <3>1. k \in DOMAIN wire[b]
        BY <1>1 DEF IsReply, Arrivals
      <3>2. wire[b][k] \in HonestPacket(b, Made, Done)
        BY <1>0, <3>1, ListParts, HonestParts
      <3>. QED
        BY <2>1, <3>2 DEF HonestPacket, Made
    <2>3. EntriesOf(c) = {}
      <3>1. ASSUME NEW j \in Slots(entries[b], c) PROVE FALSE
        <4>1. j \in DOMAIN entries[b] /\ HeaderFits(entries[b][j], wire[b][k].header)
          BY <1>0, <2>1, <3>1, AnswerFits
        <4>2. j \in 1 .. Len(entries[b])
          BY <1>0, <4>1, ListParts
        <4>. QED
          BY <1>1, <4>1, <4>2 DEF NoFit
      <3>. QED
        BY <2>1, <3>1 DEF EntriesOf, Held
    <2>. QED
      BY <1>0, <1>1, <2>2, <2>3 DEF Outcome, Over
  <1>3. ASSUME NEW c \in Call PROVE AnswerSafe(c)
    BY <1>1, <1>2, SameKeeps DEF AnswerSafe, Keeps
  <1>4. AllUntouched
    BY <1>0, <1>1, SameLists
  <1>. QED
    BY <1>1, <1>3, <1>4, QuietCourses

LEMMA ReplyEndsEntryCourses ==
    ASSUME DistinctCalls, OutcomeInv, Grows, NEW b \in Board, NEW k,
           NEW i \in DOMAIN entries[b], ReplyEndsEntry(b, k, i)
    PROVE  Courses
  <1> DEFINE p == wire[b][k]
             e == entries[b][i]
  <1>0. ListInv /\ \A c \in Call : Outcome(c)
    BY DEF OutcomeInv, AccountInv
  <1>1. /\ IsReply(b, k) /\ AckReply(b, k) /\ FirstFit(entries[b], i, p.header)
        /\ e.type = "Default" \/ (IsResponse(p) /\ p.header.isAcknowledge)
        /\ NoUserCode(b, RemoveAt(entries[b], i), 0) /\ UNCHANGED <<got, gaveUp>>
    BY DEF ReplyEndsEntry
  <1>2. Concerns(p, e) /\ p.call \in Done /\ e \in HonestEntry(b, Made, Done)
    BY <1>0, <1>1, ReplyParts, ListParts
  <1>3. IsRequest(e) => e.call \in Done /\ e.call \notin WithCallback
    BY <1>1, <1>2 DEF Concerns, HonestEntry, IsRequest, IsResponse
  <1>4. ASSUME NEW c \in Call, c \in WithCallback, AckedAnswer(c)' PROVE AckedAnswer(c)
    <2>. SUFFICES ASSUME ~AckedAnswer(c) PROVE FALSE
      OBVIOUS
    <2>1. IsResponse(p) /\ p.call = c /\ ~p.header.isAcknowledge
      BY <1>0, <1>1, <1>4, ReplyParts
    <2>. QED
      BY <1>2, <1>3, <1>4, <2>1 DEF Concerns, IsRequest, IsResponse
  <1>5. Submits(b, RemoveAt(entries[b], i))
    BY <1>0, <1>1, ListParts, NoUserCodeSubmits
  <1>6. ASSUME NEW c \in Call PROVE AnswerSafe(c)
    <2>1. CASE IsResponse(e) /\ e.call = c /\ c \in WithCallback
      <3>1. AckedAnswer(c)
        BY <1>0, <1>1, <1>2, <2>1, ReplyParts DEF Concerns, IsAckedAnswer
      <3>. QED
        BY <1>0, <1>1, <2>1, <3>1 DEF AnswerSafe, Outcome, Over
    <2>2. CASE ~(IsResponse(e) /\ e.call = c)
      BY <1>0, <1>4, <1>5, <2>2, SubmitsRemoved DEF AnswerSafe, Keeps
    <2>. QED
      BY <2>1, <2>2 DEF AnswerSafe
  <1>7. Changes(e, {})
    BY <1>0, ReplyLists
  <1>8. ASSUME NEW c \in Call, IsRequest(e), e.call = c
        PROVE  (CanRun(c) => Handled(c)') /\ c \notin WithCallback
    BY <1>3, <1>8 DEF Grows, Done
  <1>. HIDE DEF e
  <1>. QED
    BY <1>1, <1>6, <1>7, <1>8, ChangeCourses

LEMMA ReplyAcknowledgesCourses ==
    ASSUME DistinctCalls, OutcomeInv, NEW b \in Board, NEW k,
           NEW i \in DOMAIN entries[b], ReplyAcknowledges(b, k, i)
    PROVE  Courses
  <1> DEFINE p == wire[b][k]
             e == entries[b][i]
             f == InState(e, "WaitForResponse")
             X == {f}
  <1>0. ListInv
    BY DEF OutcomeInv, AccountInv
  <1>1. /\ IsReply(b, k) /\ AckReply(b, k) /\ IsRequest(p) /\ UNCHANGED <<got, gaveUp>>
        /\ NoUserCode(b, [entries[b] EXCEPT ![i] = f], 0)
    BY DEF ReplyAcknowledges, InState
  <1>2. f.header = e.header /\ f.call = e.call
    <2>1. e \in HonestEntry(b, Made, Done)
      BY <1>0, ListParts
    <2>. QED
      BY <2>1, EntryInState
  <1>3. Submits(b, [entries[b] EXCEPT ![i] = f])
    <2>. HIDE DEF f
    <2>. QED
      BY <1>0, <1>1, ListParts, NoUserCodeSubmits
  <1>4. Changes(e, X)
    BY <1>0, ReplyLists
  <1>. HIDE DEF f
  <1>5. ASSUME NEW c \in Call PROVE AnswerSafe(c)
    <2>1. Keeps(c)
      BY <1>0, <1>2, <1>3, SubmitsUpdated
    <2>2. AckedAnswer(c)' => AckedAnswer(c)
      BY <1>0, <1>1, ReplyParts DEF IsRequest, IsResponse
    <2>. QED
      BY <2>1, <2>2, SafeAnswers
  <1>6. X # {}
    OBVIOUS
  <1>. HIDE DEF e, X
  <1>. QED
    BY <1>1, <1>4, <1>5, <1>6, ChangeCourses

LEMMA ReplyCallsBackCourses ==
    ASSUME DistinctCalls, OutcomeInv, Grows, NEW b \in Board, NEW k,
           NEW i \in DOMAIN entries[b], ReplyCallsBack(b, k, i)
    PROVE  Courses
  <1> DEFINE p == wire[b][k]
             e == entries[b][i]
  <1>0. ListInv
    BY DEF OutcomeInv, AccountInv
  <1>1. /\ IsReply(b, k) /\ AckReply(b, k) /\ FirstFit(entries[b], i, p.header)
        /\ e.type = "Callback" /\ IsResponse(p) /\ ~p.header.isAcknowledge
        /\ CallBack(b, e, p, RemoveAt(entries[b], i), 0) /\ gaveUp' = gaveUp
    BY DEF ReplyCallsBack
  <1>2. Concerns(p, e) /\ p.call \in Done
    BY <1>0, <1>1, ReplyParts
  <1>3. IsRequest(e) /\ e.call = p.call /\ e.call \in Call
    BY <1>1, <1>2 DEF Concerns, IsRequest, IsResponse, Done
  <1>4. /\ \A c \in Call : got'[c] = IF c = p.call THEN Append(got[c], c) ELSE got[c]
        /\ got \in [Call -> Seq(Call)]
    <2>1. got \in [Call -> Seq(Call)]
      <3>1. TypeOK
        BY <1>0, ListParts
      <3>. QED
        BY <3>1 DEF TypeOK
    <2>. QED
      BY <1>1, <1>3, <2>1 DEF CallBack
  <1>5. Submits(b, RemoveAt(entries[b], i))
    <2>1. TypeOK /\ RemoveAt(entries[b], i) \in Seq(Entry)
      BY <1>0, ListParts, HonestList
    <2>. QED
      BY <1>1, <2>1, CallBackSubmits
  <1>6. ASSUME NEW c \in Call, p.call = c PROVE Over(c)'
    <2>1. got[c] \in Seq(Call) /\ got'[c] = Append(got[c], c)
      BY <1>4, <1>6
    <2>2. got'[c] # <<>>
      BY <2>1, AppendProperties
    <2>. QED
      BY <2>2 DEF Over
  <1>7. ASSUME NEW c \in Call PROVE AnswerSafe(c)
    <2>1. Keeps(c)
      BY <1>0, <1>3, <1>5, SubmitsRemoved DEF IsRequest, IsResponse
    <2>2. AckedAnswer(c)' => AckedAnswer(c) \/ p.call = c
      BY <1>0, <1>1, ReplyParts
    <2>. QED
      BY <1>6, <2>1, <2>2 DEF AnswerSafe, Keeps
  <1>8. Changes(e, {})
    BY <1>0, ReplyLists
  <1>9. ASSUME NEW c \in Call, e.call = c
        PROVE  (CanRun(c) => Handled(c)') /\ Over(c)'
    BY <1>2, <1>3, <1>6, <1>9 DEF Grows, Done
  <1>. HIDE DEF e, p
  <1>. QED
    BY <1>1, <1>3, <1>4, <1>7, <1>8, <1>9, ChangeCourses

-----------------------------------------------------------------------------
(* The walk through the list                                               *)

\* Sending an entry acknowledges nothing.
LEMMA SendSafe ==
    ASSUME ListInv, NEW b \in Board, InPass(b), Send(b, Current(b)) \/ wire' = wire,
           NEW c, Keeps(c)
    PROVE  AnswerSafe(c)
  <1>1. AckedAnswer(c)' => AckedAnswer(c)
    BY CurrentParts, SendAcks, SameAcks
  <1>. QED
    BY <1>1, SafeAnswers

\* The entry under the iterator leaves the list.
LEMMA WithoutKeeps ==
    ASSUME ListInv, NEW b \in Board, InPass(b), Submits(b, Without(b)), NEW c \in Call,
           ~(IsResponse(Current(b)) /\ Current(b).call = c)
    PROVE  Keeps(c)
  BY CurrentParts, SubmitsRemoved

LEMMA SendEventCourses ==
    ASSUME ListInv, NEW b \in Board, SendEvent(b) PROVE Courses
  <1> DEFINE e == Current(b)
  <1>1. /\ InPass(b) /\ Deliver(b, PacketOf(e), Without(b), entry[b])
        /\ Send(b, e) /\ e.header.destination = EventAddress
        /\ UNCHANGED <<got, gaveUp>>
    BY DEF SendEvent, Pending, IsEvent
  <1>2. /\ Changes(e, {}) /\ PacketOf(e) \in Packet /\ TypeOK
        /\ Without(b) \in Seq(Entry) /\ e \in HonestEntry(b, Made, Done)
    BY <1>1, SendEventLists, CurrentParts, ListParts, HonestList
  <1>3. IsRequest(e) /\ e.header = RequestHeader(e.call)
    BY <1>1, <1>2, EventIsRequest DEF HonestEntry
  <1>4. ~IsAction(e.call)
    BY <1>1, <1>3 DEF RequestHeader, MakeHeader, IsAction
  <1>5. ASSUME NEW c \in Call PROVE AnswerSafe(c)
    BY <1>1, <1>2, <1>3, DeliverSubmits, WithoutKeeps, SendSafe DEF IsRequest, IsResponse
  <1>6. ASSUME NEW c \in Call, e.call = c PROVE ~CanRun(c) /\ c \notin WithCallback
    BY <1>4, <1>6, CallAssumption DEF CanRun, IsAction
  <1>. HIDE DEF e
  <1>. QED
    BY <1>1, <1>2, <1>5, <1>6, ChangeCourses

LEMMA SendLocalRequestCourses ==
    ASSUME ListInv, NEW b \in Board, SendLocalRequest(b) PROVE Courses
  <1> DEFINE e == Current(b)
             f == InState(e, "WaitForResponse")
             s == IF e.type = "Callback" THEN [entries[b] EXCEPT ![entry[b]] = f]
                  ELSE Without(b)
             X == IF e.type = "Callback" THEN {f} ELSE {}
  <1>1. /\ InPass(b) /\ IsRequest(e) /\ Send(b, e) /\ UNCHANGED <<got, gaveUp>>
        /\ Deliver(b, PacketOf(e), s, entry[b]) /\ Home[e.header.destination] = b
    BY DEF SendLocalRequest, Pending, IsLocal, IsComponentAvailable, Current, InState
  <1>2. /\ Changes(e, X) /\ PacketOf(e) \in Packet /\ TypeOK
        /\ e \in HonestEntry(b, Made, Done) /\ e.header = RequestHeader(e.call)
        /\ Without(b) \in Seq(Entry) /\ entries[b] \in Seq(Entry)
        /\ entry[b] \in 1 .. Len(entries[b]) /\ e = entries[b][entry[b]]
    BY <1>1, SendLocalRequestLists, CurrentParts, ListParts, HonestList
  <1>3. f \in Entry /\ f.header = e.header /\ f.call = e.call
    BY <1>2, EntryInState
  <1>. HIDE DEF f
  <1>4. s \in Seq(Entry)
    BY <1>2, <1>3, ExceptSeq
  <1>5. ASSUME NEW c \in Call PROVE AnswerSafe(c)
    <2>1. Submits(b, s)
      <3>. HIDE DEF s
      <3>. QED
        BY <1>1, <1>2, <1>4, DeliverSubmits
    <2>2. Keeps(c)
      <3>1. CASE e.type = "Callback"
        <4>1. Submits(b, [entries[b] EXCEPT ![entry[b]] = f])
          BY <2>1, <3>1
        <4>. QED
          BY <1>1, <1>2, <1>3, <4>1, CurrentParts, SubmitsUpdated
      <3>2. CASE e.type # "Callback"
        BY <1>1, <2>1, <3>2, WithoutKeeps DEF IsRequest, IsResponse
      <3>. QED
        BY <3>1, <3>2
    <2>. QED
      BY <1>1, <2>2, SendSafe
  <1>6. ASSUME NEW c \in Call, e.call = c, X = {}
        PROVE  (CanRun(c) => Handled(c)') /\ c \notin WithCallback
    <2>1. c \notin WithCallback
      BY <1>1, <1>2, <1>6 DEF HonestEntry
    <2>2. ASSUME CanRun(c) PROVE Handled(c)'
      <3>1. /\ Destination[c] = e.header.destination
            /\ Identifier[c] = e.header.packetIdentifier
        BY <1>2, <1>6 DEF RequestHeader, MakeHeader
      <3>2. DeliversTo(b, PacketOf(e).header) /\ PacketOf(e).call = c
        BY <1>1, <1>6, <2>2, <3>1 DEF DeliversTo, PacketOf, CanRun, IsAction
      <3>3. ran'[b][c] > 0
        <4>. HIDE DEF e, s
        <4>. QED
          BY <1>1, <1>2, <3>2, DeliverRan
      <3>4. Home[Destination[c]] = b
        BY <1>1, <3>1
      <3>. QED
        BY <3>3, <3>4 DEF Handled
    <2>. QED
      BY <2>1, <2>2
  <1>7. Changes(e, X)
    BY <1>2
  <1>. HIDE DEF e, X
  <1>. QED
    BY <1>1, <1>5, <1>6, <1>7, ChangeCourses

\* The request that a local response fits is the call it answers.
LEMMA LocalAnswer ==
    ASSUME DistinctCalls, ListInv, NEW b \in Board, LocalResponse(b),
           NEW i \in DOMAIN entries[b], AnsweredBy(b, i)
    PROVE  /\ entries[b][i].call = Current(b).call /\ Current(b).call \in Done
           /\ IsRequest(entries[b][i])
  <1> DEFINE e == entries[b][i]
             a == Current(b)
  <1>1. InPass(b) /\ IsResponse(a) /\ IsRequest(e) /\ HeaderFits(e, a.header)
    BY DEF LocalResponse, Pending, AnsweredBy
  <1>2. /\ a \in HonestEntry(b, Made, Done) /\ e \in HonestEntry(b, Made, Done)
        /\ a.header \in Header /\ e.call \in Call
    BY <1>1, CurrentParts, ListParts DEF Entry
  <1>3. a.call \in Done /\ Answers(a.header, a.call) /\ e.header = RequestHeader(e.call)
    BY <1>1, <1>2 DEF HonestEntry
  <1>4. e.header.destination # EventAddress
    BY <1>1, <1>2, FitsAction
  <1>5. /\ IsAction(e.call) /\ IsAction(a.call) /\ a.call \in Call
        /\ Source[e.call] = Source[a.call] /\ Destination[e.call] = Destination[a.call]
        /\ Identifier[e.call] = Identifier[a.call]
    <2>1. /\ e.header.source = Source[e.call] /\ e.header.destination = Destination[e.call]
          /\ e.header.packetIdentifier = Identifier[e.call]
      BY <1>3 DEF RequestHeader, MakeHeader
    <2>2. IsAction(a.call) /\ a.call \in Call
      BY <1>3 DEF Done
    <2>3. IsAction(e.call)
      BY <1>4, <2>1 DEF IsAction
    <2>. QED
      BY <1>1, <1>3, <2>1, <2>2, <2>3 DEF HeaderFits, Answers
  <1>6. e.call = a.call
    BY <1>2, <1>5, SameCall
  <1>. QED
    BY <1>1, <1>3, <1>6

LEMMA SendLocalResponseCourses ==
    ASSUME DistinctCalls, OutcomeInv, Grows, NEW b \in Board,
           NEW i \in DOMAIN entries[b], SendLocalResponse(b, i)
    PROVE  Courses
  <1> DEFINE e == entries[b][i]
             a == Current(b)
             rest == RemoveAt(RemoveAt(entries[b], i), entry[b])
  <1>0. ListInv
    BY DEF OutcomeInv, AccountInv
  <1>1. /\ LocalResponse(b) /\ AnsweredBy(b, i) /\ InPass(b) /\ IsResponse(a)
        /\ i \in entry[b] + 1 .. Len(entries[b])
        /\ Send(b, a) /\ gaveUp' = gaveUp
        /\ IF e.type = "Callback" THEN CallBack(b, e, PacketOf(a), rest, entry[b])
           ELSE NoUserCode(b, rest, entry[b]) /\ UNCHANGED got
    BY DEF SendLocalResponse, LocalResponse, Pending, AnsweredBy
  <1>2. e.call = a.call /\ a.call \in Done /\ IsRequest(e) /\ PacketOf(a).call = e.call
    BY <1>0, <1>1, LocalAnswer DEF PacketOf
  <1>3. /\ Changes(e, {}) /\ e \in HonestEntry(b, Made, Done) /\ TypeOK
        /\ got \in [Call -> Seq(Call)]
    BY <1>0, SendLocalResponseLists, ListParts DEF TypeOK
  <1>4. /\ entry[b] \in 1 .. Len(RemoveAt(entries[b], i))
        /\ RemoveAt(entries[b], i)[entry[b]] = a
        /\ RemoveAt(entries[b], i) \in Seq(Entry)
    BY <1>0, <1>1, ListParts, RemoveBehind, HonestList
  <1>5. rest \in Seq(Entry)
    BY <1>4, RemoveAtList
  <1>6. Submits(b, rest)
    <2>. HIDE DEF rest
    <2>. QED
      BY <1>1, <1>3, <1>5, CallBackSubmits, NoUserCodeSubmits
  <1>7. ASSUME NEW c \in Call, c # a.call PROVE Keeps(c)
    <2>1. ASSUME HasAnswer(entries[b], c) PROVE HasAnswer(rest, c)
      <3>1. HasAnswer(RemoveAt(entries[b], i), c)
        BY <1>0, <1>2, <2>1, ListParts, RemoveAnswer DEF IsRequest, IsResponse
      <3>. QED
        BY <1>4, <1>7, <3>1, RemoveAnswer
    <2>. QED
      BY <1>6, <2>1, SubmitsKeeps
  <1>8. \A c \in Call : got'[c] = IF e.type = "Callback" /\ e.call = c
                                  THEN Append(got[c], c) ELSE got[c]
    BY <1>1, <1>2, <1>3 DEF CallBack
  <1>9. ASSUME NEW c \in Call, e.call = c, c \in WithCallback PROVE Over(c)'
    <2>1. e.type = "Callback"
      BY <1>2, <1>3, <1>9 DEF HonestEntry
    <2>2. got[c] \in Seq(Call) /\ got'[c] = Append(got[c], c)
      BY <1>3, <1>8, <1>9, <2>1
    <2>3. got'[c] # <<>>
      BY <2>2, AppendProperties
    <2>. QED
      BY <2>3 DEF Over
  <1>10. ASSUME NEW c \in Call PROVE AnswerSafe(c)
    <2>1. CASE c = a.call
      BY <1>2, <1>9, <2>1 DEF AnswerSafe
    <2>2. CASE c # a.call
      BY <1>0, <1>1, <1>7, <2>2, SendSafe
    <2>. QED
      BY <2>1, <2>2
  <1>11. ASSUME NEW c \in Call, e.call = c PROVE CanRun(c) => Handled(c)'
    BY <1>2, <1>11 DEF Grows, Done
  <1>12. Changes(e, {})
    BY <1>3
  <1>. HIDE DEF e
  <1>. QED
    BY <1>1, <1>2, <1>8, <1>9, <1>10, <1>11, <1>12, ChangeCourses

\* When no request waits for a local response, its caller waits no longer.
LEMMA SendLocalResponseInVainCourses ==
    ASSUME DistinctCalls, OutcomeInv, NEW b \in Board, SendLocalResponseInVain(b)
    PROVE  Courses
  <1> DEFINE a == Current(b)
  <1>0. ListInv /\ \A c \in Call : Outcome(c) /\ Account(c)
    BY DEF OutcomeInv, AccountInv
  <1>1. /\ InPass(b) /\ IsResponse(a) /\ IsLocal(b) /\ Send(b, a)
        /\ NoUserCode(b, Without(b), entry[b])
        /\ \A i \in DOMAIN entries[b] : ~AnsweredBy(b, i)
        /\ UNCHANGED <<got, gaveUp>>
    BY DEF SendLocalResponseInVain, LocalResponse, Pending
  <1>2. /\ a \in HonestEntry(b, Made, Done) /\ TypeOK
        /\ entry[b] \in DOMAIN entries[b] /\ a = entries[b][entry[b]]
    BY <1>0, <1>1, CurrentParts, ListParts
  <1>3. /\ a.call \in Done /\ Answers(a.header, a.call) /\ a.call \in Made
        /\ Home[Source[a.call]] = b
    BY <1>1, <1>2 DEF HonestEntry, IsLocal, IsComponentAvailable, Answers
  <1>4. ASSUME NEW c \in Call, c = a.call, c \in WithCallback PROVE Over(c)
    <2>1. ASSUME NEW j \in Slots(entries[b], c) PROVE FALSE
      <3>1. /\ j \in DOMAIN entries[b] /\ IsRequest(entries[b][j])
            /\ HeaderFits(entries[b][j], a.header)
        BY <1>0, <1>3, <1>4, <2>1, AnswerFits
      <3>2. entry[b] < j
        <4>1. InFront(entries[b])
          BY DEF OutcomeInv, OrderedInv, OrderInv, Ordered
        <4>. QED
          BY <1>1, <1>2, <3>1, <4>1 DEF InFront
      <3>3. entries[b][j].state # "TransmissionPending"
        <4>1. entries[b][j] \in EntriesOf(c)
          BY <1>3, <1>4, <2>1 DEF EntriesOf, Held
        <4>2. Home[Destination[c]] \in Board /\ ran[Home[Destination[c]]][c] > 0
          BY <1>3, <1>4, CallAssumption, ComponentAssumption DEF Done, Handled, IsAction
        <4>3. Load(Home[Destination[c]], c) > 0
          <5>1. /\ Count(Home[Destination[c]], c) \in Nat
                /\ ran[Home[Destination[c]]][c] \in Nat
                /\ Load(Home[Destination[c]], c) =
                      ran[Home[Destination[c]]][c] + Count(Home[Destination[c]], c)
            BY <1>2, <4>2, CountType
          <5>. QED
            BY <4>2, <5>1
        <4>4. Account(c)
          BY <1>0
        <4>. QED
          BY <4>1, <4>2, <4>3, <4>4 DEF Account
      <3>4. j \in entry[b] + 1 .. Len(entries[b])
        <4>1. entry[b] \in Nat /\ j \in 1 .. Len(entries[b])
          BY <1>0, <1>2, <3>1, ListParts DEF TypeOK
        <4>. QED
          BY <3>2, <4>1
      <3>. QED
        BY <1>1, <3>1, <3>3, <3>4 DEF AnsweredBy
    <2>2. EntriesOf(c) = {}
      BY <1>3, <1>4, <2>1 DEF EntriesOf, Held
    <2>. QED
      BY <1>0, <1>3, <1>4, <2>2 DEF Outcome, Made
  <1>5. Submits(b, Without(b))
    BY <1>1, <1>2, NoUserCodeSubmits
  <1>6. ASSUME NEW c \in Call PROVE AnswerSafe(c)
    <2>1. CASE c = a.call
      <3>1. c \in WithCallback => Over(c)'
        BY <1>1, <1>4, <2>1 DEF Over
      <3>. QED
        BY <3>1 DEF AnswerSafe
    <2>2. CASE c # a.call
      <3>1. Keeps(c)
        BY <1>0, <1>1, <1>5, <2>2, WithoutKeeps
      <3>. QED
        BY <1>0, <1>1, <3>1, SendSafe
    <2>. QED
      BY <2>1, <2>2
  <1>. QED
    BY <1>0, <1>1, <1>6, SendLocalResponseInVainLists, QuietCourses

\* The entry under the iterator stays, in another state or with another try.
LEMMA StayingCourses ==
    ASSUME ListInv, NEW b \in Board, InPass(b), Send(b, Current(b)), NEW f, NEW j,
           f.header = Current(b).header, f.call = Current(b).call,
           NoUserCode(b, [entries[b] EXCEPT ![entry[b]] = f], j),
           Changes(Current(b), {f}), UNCHANGED <<got, gaveUp>>
    PROVE  Courses
  <1> DEFINE e == Current(b)
             X == {f}
  <1>1. Submits(b, [entries[b] EXCEPT ![entry[b]] = f])
    BY ListParts, NoUserCodeSubmits
  <1>2. ASSUME NEW c \in Call PROVE AnswerSafe(c)
    <2>1. Keeps(c)
      BY <1>1, CurrentParts, SubmitsUpdated
    <2>. QED
      BY <2>1, SendSafe
  <1>3. Changes(e, X) /\ X # {}
    OBVIOUS
  <1>. HIDE DEF e, X
  <1>. QED
    BY <1>2, <1>3, ChangeCourses

LEMMA SendRemoteCourses == ASSUME ListInv, NEW b \in Board, SendRemote(b) PROVE Courses
  <1> DEFINE f == InState(Current(b), "WaitForACK")
  <1>1. /\ InPass(b) /\ Send(b, Current(b)) /\ UNCHANGED <<got, gaveUp>>
        /\ NoUserCode(b, [entries[b] EXCEPT ![entry[b]] = f], entry[b] + 1)
    BY DEF SendRemote, Pending, Current, InState
  <1>2. Changes(Current(b), {f}) /\ f.header = Current(b).header /\ f.call = Current(b).call
    <2>1. Current(b) \in HonestEntry(b, Made, Done)
      BY <1>1, CurrentParts
    <2>. QED
      BY <2>1, SendRemoteLists, EntryInState
  <1>. HIDE DEF f
  <1>. QED
    BY <1>1, <1>2, StayingCourses

LEMMA RetransmitCourses == ASSUME ListInv, NEW b \in Board, Retransmit(b) PROVE Courses
  <1> DEFINE f == NextTry(Current(b))
  <1>1. /\ InPass(b) /\ Send(b, Current(b)) /\ UNCHANGED <<got, gaveUp>>
        /\ NoUserCode(b, [entries[b] EXCEPT ![entry[b]] = f], entry[b] + 1)
        /\ Current(b).tries < MaxTries
    BY DEF Retransmit, Expired, Current, NextTry
  <1>2. Changes(Current(b), {f}) /\ f.header = Current(b).header /\ f.call = Current(b).call
    <2>1. Current(b) \in HonestEntry(b, Made, Done)
      BY <1>1, CurrentParts
    <2>. QED
      BY <1>1, <2>1, RetransmitLists, EntryNextTry
  <1>. HIDE DEF f
  <1>. QED
    BY <1>1, <1>2, StayingCourses

LEMMA GiveUpCourses == ASSUME ListInv, NEW b \in Board, GiveUp(b) PROVE Courses
  <1> DEFINE e == Current(b)
  <1>1. /\ InPass(b) /\ NoUserCode(b, Without(b), entry[b]) /\ wire' = wire /\ got' = got
        /\ gaveUp' = gaveUp \cup {<<e.call, e.header.type>>}
    BY DEF GiveUp, Expired, network
  <1>2. Changes(e, {}) /\ e \in HonestEntry(b, Made, Done)
    BY <1>1, GiveUpLists, CurrentParts
  <1>3. Submits(b, Without(b))
    BY <1>1, ListParts, NoUserCodeSubmits
  <1>4. ASSUME NEW c \in Call PROVE AnswerSafe(c)
    <2>1. CASE IsResponse(e) /\ e.call = c
      <3>1. e.header.type \in ResponseType
        BY <1>2, <2>1 DEF HonestEntry
      <3>2. <<c, e.header.type>> \in gaveUp'
        BY <1>1, <2>1
      <3>3. AnswerGivenUp(c)'
        BY <3>1, <3>2 DEF AnswerGivenUp
      <3>. QED
        BY <1>1, <3>3, SameAcks DEF AnswerSafe
    <2>2. CASE ~(IsResponse(e) /\ e.call = c)
      BY <1>1, <1>3, <2>2, WithoutKeeps, SendSafe
    <2>. QED
      BY <2>1, <2>2
  <1>5. ASSUME NEW c \in Call, IsRequest(e), e.call = c PROVE <<c, "REQUEST">> \in gaveUp'
    BY <1>1, <1>5 DEF IsRequest
  <1>6. \A c \in Call : <<c, "REQUEST">> \in gaveUp' => Over(c)'
    BY DEF Over
  <1>. HIDE DEF e
  <1>. QED
    BY <1>1, <1>2, <1>4, <1>5, <1>6, ChangeCourses

LEMMA SkipCourses == ASSUME ListInv, NEW b \in Board, Skip(b) PROVE Courses
  <1>1. NoUserCode(b, entries[b], entry[b] + 1) /\ UNCHANGED <<wire, got, gaveUp>>
    BY DEF Skip, network
  <1>2. Submits(b, entries[b])
    BY <1>1, ListParts, NoUserCodeSubmits
  <1>3. ASSUME NEW c \in Call PROVE AnswerSafe(c)
    BY <1>1, <1>2, SubmitsKeeps, SameAcks, SafeAnswers
  <1>. QED
    BY <1>1, <1>3, SkipLists, QuietCourses

LEMMA PassCourses ==
    ASSUME DistinctCalls, OutcomeInv, Grows, NEW b \in Board, Pass(b) PROVE Courses
  <1>0. ListInv
    BY DEF OutcomeInv, AccountInv
  <1>1. CASE EndPass(b)
    BY <1>0, <1>1, LoopCourses DEF EndPass, network, history
  <1>. QED
    BY <1>0, <1>1, SendEventCourses, SendLocalRequestCourses, SendLocalResponseCourses,
       SendLocalResponseInVainCourses, SendRemoteCourses, RetransmitCourses, GiveUpCourses,
       SkipCourses DEF Pass

LEMMA NextCourses ==
    ASSUME DistinctCalls, OutcomeInv, Grows, [Next]_vars PROVE Courses
  <1>0. ListInv
    BY DEF OutcomeInv, AccountInv
  <1>1. CASE UNCHANGED vars
    BY <1>0, <1>1, LoopCourses DEF vars, network, history
  <1>2. ASSUME NEW b \in Board, StartUpdate(b) \/ EndReceive(b) \/ Lose(b) PROVE Courses
    BY <1>0, <1>2, LoopCourses DEF StartUpdate, EndReceive, Lose, network, history
  <1>3. ASSUME NEW b \in Board, NEW k \in DOMAIN wire[b], Receive(b, k) PROVE Courses
    BY <1>0, <1>3, ReceiveRequestCourses, IgnoreReplyCourses, ReplyEndsEntryCourses,
       ReplyAcknowledgesCourses, ReplyCallsBackCourses DEF Receive
  <1>4. CASE Next
    BY <1>0, <1>2, <1>3, <1>4, WorkCourses, PassCourses DEF Next
  <1>. QED
    BY <1>1, <1>4

LEMMA OutcomeInvStep ==
    ASSUME DistinctCalls PROVE OutcomeInv /\ [Next]_vars => OutcomeInv'
  <1>. SUFFICES ASSUME OutcomeInv, [Next]_vars PROVE OutcomeInv'
    OBVIOUS
  <1>1. HonestInv /\ AccountInv
    BY DEF OutcomeInv, AccountInv, ListInv
  <1>2. Grows
    BY <1>1, HonestStep
  <1>3. Courses /\ Fates
    BY <1>1, <1>2, NextCourses, NextFates
  <1>4. ASSUME NEW c \in Call PROVE Outcome(c)'
    <2>1. CanRun(c) /\ Handled(c) => Handled(c)'
      BY <1>2 DEF Grows, Done, CanRun
    <2>. QED
      BY <1>3, <2>1, OutcomeStep DEF OutcomeInv, Courses, Fates
  <1>5. AccountInv' /\ OrderedInv'
    BY <1>1, AccountInvStep, OrderedInvStep DEF OutcomeInv
  <1>. QED
    BY <1>4, <1>5 DEF OutcomeInv

LEMMA OutcomeInvInit == Init => OutcomeInv
  <1>. SUFFICES ASSUME Init PROVE OutcomeInv
    OBVIOUS
  <1>1. ASSUME NEW c \in Call PROVE Outcome(c)
    <2>1. c \in todo /\ got[c] = <<>> /\ answered = {} /\ ~AckedAnswer(c)
      BY DEF Init, AckedAnswer
    <2>. QED
      BY <2>1 DEF Outcome
  <1>. QED
    BY <1>1, AccountInvInit, OrderedInvInit DEF OutcomeInv

\* What became of every call and of its answer is accounted for.
THEOREM OutcomeAlways == ASSUME DistinctCalls PROVE Spec => []OutcomeInv
  BY OutcomeInvInit, OutcomeInvStep, PTL DEF Spec

\* A call to a registered handler leaves the list of its caller only when the
\* handler ran or when handleWaitingMessages gave up after three tries.
THEOREM CallsAreNotLost == ASSUME DistinctCalls PROVE Spec => []NoSilentLoss
  <1>1. OutcomeInv => NoSilentLoss
    <2>. SUFFICES ASSUME OutcomeInv, NEW c \in Call \ todo, CanRun(c)
                  PROVE  Listed(c, "REQUEST") \/ Handled(c) \/ <<c, "REQUEST">> \in gaveUp
      BY DEF NoSilentLoss
    <2>1. EntriesOf(c) # {} => Listed(c, "REQUEST")
      BY CallerBoard DEF EntriesOf, Held, Slots, Listed, IsRequest
    <2>. QED
      BY <2>1 DEF OutcomeInv, Outcome
  <1>. QED
    BY <1>1, OutcomeAlways, PTL

\* A ResponseCallback is called at most once, and with the answer to its own call.
THEOREM CallbacksGetOwnAnswers == ASSUME DistinctCalls PROVE Spec => []CallbackGetsOwnAnswer
  <1>1. OutcomeInv => CallbackGetsOwnAnswer
    BY DEF OutcomeInv, Outcome, CallbackGetsOwnAnswer
  <1>. QED
    BY <1>1, OutcomeAlways, PTL

\* A submitted answer stays in a list until the callback that waits for it was
\* called or one side gave up.
THEOREM AnswersAreNotLost == ASSUME DistinctCalls PROVE Spec => []AnswerNotLost
  <1>1. OutcomeInv => AnswerNotLost
    <2>. SUFFICES ASSUME OutcomeInv, NEW c \in answered \cap WithCallback
                  PROVE  \/ \E t \in ResponseType : Listed(c, t) \/ <<c, t>> \in gaveUp
                         \/ Over(c)
      BY DEF AnswerNotLost, Over
    <2>1. ListInv /\ c \in Call /\ Outcome(c)
      BY CallAssumption DEF OutcomeInv, AccountInv
    <2>2. ASSUME AnswerListed(c) PROVE \E t \in ResponseType : Listed(c, t)
      <3>1. PICK b \in Board : HasAnswer(entries[b], c)
        BY <2>2 DEF AnswerListed
      <3>2. PICK i \in DOMAIN entries[b] : IsResponse(entries[b][i]) /\ entries[b][i].call = c
        BY <3>1 DEF HasAnswer
      <3>3. entries[b][i] \in HonestEntry(b, Made, Done)
        BY <2>1, ListParts
      <3>4. entries[b][i].header.type \in ResponseType
        BY <3>2, <3>3 DEF HonestEntry
      <3>. QED
        BY <3>2, <3>4 DEF Listed
    <2>. QED
      BY <2>1, <2>2 DEF Outcome, AnswerGivenUp
  <1>. QED
    BY <1>1, OutcomeAlways, PTL
=============================================================================
