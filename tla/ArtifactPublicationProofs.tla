---------------------- MODULE ArtifactPublicationProofs ----------------------
(***************************************************************************)
(* Proofs about ArtifactPublication, for any number of Artifacts, bundles, *)
(* keys, reconcilers and faults: Publications, links and idempotency       *)
(* records agree, and deletions leave alone the bundles others need.       *)
(***************************************************************************)
EXTENDS ArtifactPublication, TLAPS

PublicationRow ==
    [bundle : Bundles, key : Keys, born : Nat, ended : {None, "superseded", "unpublished"},
     expired : BOOLEAN]

RequestRow == [on : Artifacts, bundle : Bundles, key : Keys, replace : BOOLEAN, born : Nat]

CleanupRow ==
    [state : {None, "due", "leased", "parked"}, lease : Reconcilers \union {None}]

SharingTypes ==
    /\ publication \in [Artifacts -> Seq(PublicationRow)]
    /\ link \in [Artifacts -> Nat]
    /\ recorded \in [Artifacts -> [Keys -> Bundles \union {None}]]
    /\ request \subseteq RequestRow /\ begun \in Nat

\* The Publications of an Artifact as its records have them; one of them was begun last.
HistoryOK(history, keys) ==
    /\ \A i \in DOMAIN history :
         /\ IsCurrent(history[i]) => i = Len(history)
         /\ history[i].ended = "superseded" => i < Len(history)
         /\ keys[history[i].key] = history[i].bundle
         /\ \A j \in DOMAIN history : history[i].key = history[j].key => i = j
    /\ history # <<>> => \E i \in DOMAIN history :
                            \A j \in DOMAIN history : history[i].born >= history[j].born

SharingInv ==
    /\ SharingTypes
    /\ \A a \in Artifacts : /\ HistoryOK(publication[a], recorded[a])
                            /\ (publication[a] = <<>>) = (link[a] = 0)

ContentTypes ==
    /\ version \in [Artifacts \X Bundles -> {None, "ready", "emptied"}]
    /\ bundle \in [Bundles -> {None, "ready", "deleting"}]
    /\ artifact \subseteq Artifacts
    /\ cleanup \in [Artifacts -> CleanupRow]

\* An Artifact that is kept although it was deleted is kept for its listing.
KeptForListing ==
    /\ held \subseteq listed
    /\ \A a \in artifact : cleanup[a] # NoCleanup => a \in listed

ContentInv == ContentTypes /\ KeptForListing /\ SharedBundlesStay

PublicationInv == SharingInv /\ ContentInv
-----------------------------------------------------------------------------
(* Histories. *)

LEMMA InitInv == Init => PublicationInv
<1> SUFFICES ASSUME Init PROVE PublicationInv
  OBVIOUS
<1>1. SharingInv
  BY DEF Init, SharingInv, SharingTypes, HistoryOK
<1>2. ContentInv
  BY DEF Init, ContentInv, ContentTypes, KeptForListing, SharedBundlesStay, BundlesOf, NoCleanup,
         CleanupRow, None
<1>3. QED
  BY <1>1, <1>2 DEF PublicationInv

\* A Publication becomes the last, and everything before it is superseded.
LEMMA PublishedHistory ==
    ASSUME NEW history \in Seq(PublicationRow), NEW keys \in [Keys -> Bundles \union {None}],
           HistoryOK(history, keys),
           NEW p \in PublicationRow, p.ended = None, keys[p.key] = None
    PROVE  LET h == Append(Superseded(history), p)
           IN  /\ h \in Seq(PublicationRow) /\ h # <<>>
               /\ HistoryOK(h, [keys EXCEPT ![p.key] = p.bundle])
<1> DEFINE old == Superseded(history)
           h == Append(old, p)
           k == [keys EXCEPT ![p.key] = p.bundle]
           n == Len(history)
<1>1. n \in Nat /\ DOMAIN history = 1 .. n
  OBVIOUS
<1>2. ASSUME NEW i \in 1 .. n
      PROVE  /\ old[i] \in PublicationRow
             /\ old[i].key = history[i].key /\ old[i].bundle = history[i].bundle
             /\ old[i].born = history[i].born /\ old[i].ended # None
  <2>1. history[i] \in PublicationRow
    BY <1>1
  <2>2. old[i] = IF IsCurrent(history[i]) THEN [history[i] EXCEPT !.ended = "superseded"]
                 ELSE history[i]
    BY <1>1 DEF Superseded
  <2> HIDE DEF old
  <2>3. QED
    BY <2>1, <2>2 DEF PublicationRow, IsCurrent, None
<1>3. old = [i \in 1 .. n |-> old[i]]
  BY <1>1 DEF Superseded
<1> HIDE DEF old
<1>4. old \in Seq(PublicationRow) /\ Len(old) = n
  BY <1>1, <1>2, <1>3
<1>5. /\ h \in Seq(PublicationRow) /\ Len(h) = n + 1 /\ DOMAIN h = 1 .. (n + 1)
      /\ h[n + 1] = p /\ \A i \in 1 .. n : h[i] = old[i]
  BY <1>1, <1>4
<1>6. h # <<>>
  BY <1>1, <1>5
<1>7. p.key \in Keys /\ p.bundle \in Bundles /\ p.born \in Nat
  BY DEF PublicationRow
<1>8. k[p.key] = p.bundle /\ \A x \in Keys : x # p.key => k[x] = keys[x]
  BY <1>7
<1> HIDE DEF h, k
<1>9. \A i \in 1 .. n : /\ history[i].key \in Keys /\ history[i].bundle \in Bundles
                        /\ history[i].born \in Nat
                        /\ keys[history[i].key] = history[i].bundle
                        /\ \A j \in 1 .. n : history[i].key = history[j].key => i = j
  <2>1. \A i \in 1 .. n : history[i] \in PublicationRow
    BY <1>1
  <2>2. \A i \in 1 .. n : /\ history[i].key \in Keys /\ history[i].bundle \in Bundles
                          /\ history[i].born \in Nat
    BY <2>1 DEF PublicationRow
  <2>3. \A i \in 1 .. n : /\ keys[history[i].key] = history[i].bundle
                          /\ \A j \in 1 .. n : history[i].key = history[j].key => i = j
    BY <1>1 DEF HistoryOK
  <2>4. QED
    BY <2>2, <2>3
<1>10. \A i \in 1 .. n : history[i].key # p.key
  BY <1>9, NoneAssumption
<1>11. ASSUME NEW i \in 1 .. (n + 1)
       PROVE  /\ IsCurrent(h[i]) => i = n + 1
              /\ h[i].ended = "superseded" => i < n + 1
              /\ k[h[i].key] = h[i].bundle
              /\ \A j \in 1 .. (n + 1) : h[i].key = h[j].key => i = j
  <2>1. CASE i = n + 1
    <3>1. \A j \in 1 .. n : h[j].key # p.key
      BY <1>2, <1>5, <1>10
    <3>2. QED
      BY <1>1, <1>5, <1>8, <2>1, <3>1 DEF None
  <2>2. CASE i \in 1 .. n
    <3>1. /\ h[i].key = history[i].key /\ h[i].bundle = history[i].bundle /\ ~IsCurrent(h[i])
          /\ i < n + 1
      BY <1>1, <1>2, <1>5, <2>2 DEF IsCurrent
    <3>2. k[h[i].key] = h[i].bundle
      BY <1>8, <1>9, <1>10, <2>2, <3>1
    <3>3. ASSUME NEW j \in 1 .. (n + 1), h[i].key = h[j].key PROVE i = j
      <4>1. CASE j = n + 1
        BY <1>5, <1>10, <2>2, <3>1, <3>3, <4>1
      <4>2. CASE j \in 1 .. n
        BY <1>2, <1>5, <1>9, <2>2, <3>1, <3>3, <4>2
      <4>3. QED
        BY <1>1, <4>1, <4>2
    <3>4. QED
      BY <3>1, <3>2, <3>3
  <2>3. QED
    BY <1>1, <2>1, <2>2
<1>12. \E i \in 1 .. (n + 1) : \A j \in 1 .. (n + 1) : h[i].born >= h[j].born
  <2>1. CASE \A j \in 1 .. n : p.born >= history[j].born
    <3>1. \A j \in 1 .. (n + 1) : h[n + 1].born >= h[j].born
      BY <1>1, <1>2, <1>5, <1>7, <2>1
    <3>2. n + 1 \in 1 .. (n + 1)
      BY <1>1
    <3> HIDE DEF n
    <3>3. QED
      BY <3>1, <3>2
  <2>2. CASE \E j \in 1 .. n : ~(p.born >= history[j].born)
    <3>1. n # 0
      BY <2>2
    <3>2. PICK i \in 1 .. n : \A j \in 1 .. n : history[i].born >= history[j].born
      BY <1>1, <3>1 DEF HistoryOK
    <3>3. history[i].born >= p.born
      BY <1>7, <1>9, <2>2, <3>2
    <3>4. h[i].born = history[i].born /\ i \in 1 .. (n + 1)
      BY <1>1, <1>2, <1>5
    <3>5. \A j \in 1 .. n : h[j].born = history[j].born
      BY <1>2, <1>5
    <3>6. ASSUME NEW j \in 1 .. (n + 1) PROVE h[i].born >= h[j].born
      <4>1. CASE j = n + 1
        BY <1>5, <3>3, <3>4, <4>1
      <4>2. CASE j # n + 1
        <5>1. j \in 1 .. n
          BY <1>1, <4>2
        <5>2. QED
          BY <3>2, <3>4, <3>5, <5>1
      <4>3. QED
        BY <4>1, <4>2
    <3>7. QED
      BY <3>4, <3>6
  <2>3. QED
    BY <2>1, <2>2
<1>13. HistoryOK(h, k)
  BY <1>5, <1>11, <1>12 DEF HistoryOK
<1>14. QED
  BY <1>5, <1>6, <1>13 DEF h, k, old

\* The current Publication is unpublished, or its expiration is moved.
LEMMA EditedHistory ==
    ASSUME NEW history \in Seq(PublicationRow), NEW keys, HistoryOK(history, keys),
           NEW i \in DOMAIN history, IsCurrent(history[i]), NEW p \in PublicationRow,
           p.bundle = history[i].bundle, p.key = history[i].key, p.born = history[i].born,
           p.ended # "superseded", NEW h, h = [history EXCEPT ![i] = p]
    PROVE  h \in Seq(PublicationRow) /\ h # <<>> /\ HistoryOK(h, keys)
<1>1. Len(history) \in Nat /\ DOMAIN history = 1 .. Len(history) /\ i = Len(history)
  BY DEF HistoryOK
<1>2. /\ h \in Seq(PublicationRow) /\ DOMAIN h = DOMAIN history /\ Len(h) = Len(history)
      /\ h[i] = p /\ \A j \in DOMAIN history : j # i => h[j] = history[j]
  OBVIOUS
<1>3. h # <<>> /\ history # <<>>
  BY <1>1, <1>2
<1>4. \A j \in DOMAIN history : /\ h[j].key = history[j].key /\ h[j].bundle = history[j].bundle
                                /\ h[j].born = history[j].born
                                /\ j # i => h[j] = history[j]
  BY <1>2
<1>5. ASSUME NEW j \in DOMAIN h
      PROVE  /\ IsCurrent(h[j]) => j = Len(h)
             /\ h[j].ended = "superseded" => j < Len(h)
             /\ keys[h[j].key] = h[j].bundle
             /\ \A m \in DOMAIN h : h[j].key = h[m].key => j = m
  BY <1>1, <1>2, <1>4 DEF HistoryOK
<1>6. \E j \in DOMAIN h : \A m \in DOMAIN h : h[j].born >= h[m].born
  BY <1>2, <1>3, <1>4 DEF HistoryOK
<1>7. QED
  BY <1>2, <1>3, <1>5, <1>6 DEF HistoryOK

\* One Artifact's sharing changes.
LEMMA OneHistory ==
    ASSUME SharingInv, NEW a \in Artifacts, NEW h \in Seq(PublicationRow), NEW n \in Nat,
           NEW keys \in [Keys -> Bundles \union {None}],
           HistoryOK(h, keys), (h = <<>>) = (n = 0),
           publication' = [publication EXCEPT ![a] = h], link' = [link EXCEPT ![a] = n],
           recorded' = [recorded EXCEPT ![a] = keys],
           request' \subseteq RequestRow, begun' \in Nat
    PROVE  SharingInv'
<1>1. SharingTypes'
  BY DEF SharingInv, SharingTypes
<1>2. /\ publication'[a] = h /\ link'[a] = n /\ recorded'[a] = keys
      /\ \A x \in Artifacts : x # a => /\ publication'[x] = publication[x]
                                       /\ link'[x] = link[x] /\ recorded'[x] = recorded[x]
  BY DEF SharingInv, SharingTypes
<1>3. ASSUME NEW x \in Artifacts
      PROVE  /\ HistoryOK(publication'[x], recorded'[x])
             /\ (publication'[x] = <<>>) = (link'[x] = 0)
  BY <1>2 DEF SharingInv
<1>4. QED
  BY <1>1, <1>3 DEF SharingInv
-----------------------------------------------------------------------------
(* Sharing. *)

LEMMA PublishInv ==
    ASSUME SharingInv, NEW q \in request, Publish(q)
    PROVE  SharingInv'
<1>1. PICK a \in Artifacts, k \in Keys, b \in Bundles : a = q.on /\ k = q.key /\ b = q.bundle
  BY DEF SharingInv, SharingTypes, RequestRow
<1>2. q.born \in Nat /\ request' \subseteq RequestRow /\ begun' \in Nat
  BY DEF SharingInv, SharingTypes, RequestRow, Publish
<1> DEFINE p == [bundle |-> q.bundle, key |-> q.key, born |-> q.born, ended |-> None,
                 expired |-> FALSE]
<1>3. p \in PublicationRow /\ p.ended = None /\ p.key = k /\ p.bundle = b
  BY <1>1, <1>2 DEF PublicationRow
<1>4. PICK history \in Seq(PublicationRow), keys \in [Keys -> Bundles \union {None}] :
        history = publication[a] /\ keys = recorded[a] /\ HistoryOK(history, keys)
  BY DEF SharingInv, SharingTypes
<1>5. keys[k] = None
  BY <1>1, <1>4 DEF Publish, Replayed
<1>6. /\ publication' = [publication EXCEPT ![a] = Append(Superseded(history), p)]
      /\ recorded' = [recorded EXCEPT ![a] = [keys EXCEPT ![k] = b]]
  BY <1>1, <1>4 DEF Publish, SharingInv, SharingTypes
<1> HIDE DEF p
<1>7. PICK h : h = Append(Superseded(history), p)
  OBVIOUS
<1>8. PICK done : done = [keys EXCEPT ![k] = b]
  OBVIOUS
<1>9. h \in Seq(PublicationRow) /\ h # <<>> /\ HistoryOK(h, done)
  BY <1>3, <1>4, <1>5, <1>7, <1>8, PublishedHistory
<1>10. done \in [Keys -> Bundles \union {None}]
  BY <1>8
<1>11. PICK n \in Nat : n # 0 /\ link' = [link EXCEPT ![a] = n]
  <2>1. link[a] \in Nat
    BY DEF SharingInv, SharingTypes
  <2>2. PICK n : n = IF q.replace \/ link[a] = 0 THEN link[a] + 1 ELSE link[a]
    OBVIOUS
  <2>3. n \in Nat /\ n # 0
    BY <2>1, <2>2
  <2>4. link' = [link EXCEPT ![a] = n]
    BY <1>1, <2>2 DEF Publish
  <2>5. QED
    BY <2>3, <2>4
<1>12. QED
  BY <1>2, <1>6, <1>7, <1>8, <1>9, <1>10, <1>11, OneHistory

\* What changes the current Publication and nothing beside it.
LEMMA CurrentInv ==
    ASSUME SharingInv, NEW a \in Artifacts, Unpublish(a) \/ Expire(a) \/ UpdateExpiration(a)
    PROVE  SharingInv'
<1>1. UNCHANGED <<link, recorded, request, begun>>
  BY DEF Unpublish, Expire, UpdateExpiration, asking
<1>2. /\ publication \in [Artifacts -> Seq(PublicationRow)]
      /\ HistoryOK(publication[a], recorded[a])
      /\ (publication[a] = <<>>) = (link[a] = 0)
      /\ recorded \in [Artifacts -> [Keys -> Bundles \union {None}]]
      /\ link \in [Artifacts -> Nat] /\ request' \subseteq RequestRow /\ begun' \in Nat
  BY <1>1 DEF SharingInv, SharingTypes
<1>3. PICK history \in Seq(PublicationRow), keys \in [Keys -> Bundles \union {None}] :
        history = publication[a] /\ keys = recorded[a] /\ HistoryOK(history, keys)
  BY <1>2
<1>4. PICK i \in DOMAIN history :
        /\ IsCurrent(history[i])
        /\ \/ publication' = [publication EXCEPT ![a][i].ended = "unpublished"]
           \/ publication' = [publication EXCEPT ![a][i].expired = TRUE]
           \/ publication' = [publication EXCEPT ![a][i].expired = FALSE]
  BY <1>3 DEF Unpublish, Expire, UpdateExpiration, Current
<1>5. PICK row \in PublicationRow : row = history[i]
  OBVIOUS
<1>6. PICK p \in PublicationRow :
        /\ publication' = [publication EXCEPT ![a] = [history EXCEPT ![i] = p]]
        /\ p.bundle = history[i].bundle /\ p.key = history[i].key /\ p.born = history[i].born
        /\ p.ended # "superseded"
  <2>1. CASE publication' = [publication EXCEPT ![a][i].ended = "unpublished"]
    <3>1. PICK p : p = [row EXCEPT !.ended = "unpublished"]
      OBVIOUS
    <3>2. /\ p \in PublicationRow /\ p.bundle = row.bundle /\ p.key = row.key /\ p.born = row.born
          /\ p.ended = "unpublished"
      BY <3>1 DEF PublicationRow
    <3>3. publication' = [publication EXCEPT ![a] = [history EXCEPT ![i] = p]]
      BY <1>3, <1>5, <2>1, <3>1
    <3>4. QED
      BY <1>5, <3>2, <3>3
  <2>2. ASSUME NEW e \in BOOLEAN, publication' = [publication EXCEPT ![a][i].expired = e]
        PROVE  \E p \in PublicationRow :
                 /\ publication' = [publication EXCEPT ![a] = [history EXCEPT ![i] = p]]
                 /\ p.bundle = history[i].bundle /\ p.key = history[i].key
                 /\ p.born = history[i].born
                 /\ p.ended # "superseded"
    <3>1. PICK p : p = [row EXCEPT !.expired = e]
      OBVIOUS
    <3>2. /\ p \in PublicationRow /\ p.bundle = row.bundle /\ p.key = row.key /\ p.born = row.born
          /\ p.ended = row.ended
      BY <3>1 DEF PublicationRow
    <3>3. publication' = [publication EXCEPT ![a] = [history EXCEPT ![i] = p]]
      BY <1>3, <1>5, <2>2, <3>1
    <3>4. row.ended # "superseded"
      BY <1>4, <1>5 DEF IsCurrent, None
    <3>5. QED
      BY <1>5, <3>2, <3>3, <3>4
  <2>3. QED
    BY <1>4, <2>1, <2>2
<1>7. PICK h : h = [history EXCEPT ![i] = p]
  OBVIOUS
<1>8. h \in Seq(PublicationRow) /\ h # <<>> /\ HistoryOK(h, keys)
  BY <1>3, <1>4, <1>6, <1>7, EditedHistory
<1>9. history # <<>>
  OBVIOUS
<1>10. /\ publication' = [publication EXCEPT ![a] = h]
       /\ link' = [link EXCEPT ![a] = link[a]]
       /\ recorded' = [recorded EXCEPT ![a] = keys]
       /\ link[a] \in Nat /\ link[a] # 0 /\ keys \in [Keys -> Bundles \union {None}]
  BY <1>1, <1>2, <1>3, <1>6, <1>7, <1>9
<1>11. QED
  BY <1>2, <1>8, <1>10, OneHistory

\* The end of sharing, with the records of the keys or without.
LEMMA EndInv ==
    ASSUME SharingInv, NEW a \in Artifacts, EndSharing(a),
           UNCHANGED recorded \/ recorded' = [recorded EXCEPT ![a] = [k \in Keys |-> None]],
           UNCHANGED asking
    PROVE  SharingInv'
<1>1. /\ publication' = [publication EXCEPT ![a] = <<>>] /\ link' = [link EXCEPT ![a] = 0]
      /\ request' \subseteq RequestRow /\ begun' \in Nat
  BY DEF EndSharing, SharingInv, SharingTypes, asking
<1>2. PICK keys \in [Keys -> Bundles \union {None}] : recorded' = [recorded EXCEPT ![a] = keys]
  <2>1. recorded \in [Artifacts -> [Keys -> Bundles \union {None}]]
    BY DEF SharingInv, SharingTypes
  <2>2. recorded = [recorded EXCEPT ![a] = recorded[a]]
        /\ recorded[a] \in [Keys -> Bundles \union {None}]
    BY <2>1
  <2>3. [k \in Keys |-> None] \in [Keys -> Bundles \union {None}]
    OBVIOUS
  <2>4. QED
    BY <2>2, <2>3
<1>3. <<>> \in Seq(PublicationRow) /\ HistoryOK(<<>>, keys) /\ 0 \in Nat
  BY DEF HistoryOK
<1>4. QED
  BY <1>1, <1>2, <1>3, OneHistory
-----------------------------------------------------------------------------
(* Content and deletion. *)

\* A cleanup row goes on, and goes away only where nothing is listed.
LEMMA CleanupMoves ==
    ASSUME ContentInv, NEW a \in Artifacts, NEW row \in CleanupRow, cleanup[a] # NoCleanup,
           cleanup' = [cleanup EXCEPT ![a] = row], row = NoCleanup => a \notin listed,
           UNCHANGED <<artifact, version, bundle, retired, listed, held>>
    PROVE  ContentInv'
<1>1. /\ cleanup' \in [Artifacts -> CleanupRow] /\ cleanup'[a] = row
      /\ \A x \in Artifacts : x # a => cleanup'[x] = cleanup[x]
  BY DEF ContentInv, ContentTypes
<1>2. a \notin artifact \/ a \in listed
  BY DEF ContentInv, KeptForListing
<1>3. ContentTypes' /\ KeptForListing'
  BY <1>1 DEF ContentInv, ContentTypes, KeptForListing
<1>4. \A x \in Artifacts : Managed(x)' => Managed(x)
  BY <1>1, <1>2 DEF Managed
<1>5. SharedBundlesStay'
  BY <1>4 DEF ContentInv, SharedBundlesStay, BundlesOf
<1>6. QED
  BY <1>3, <1>5 DEF ContentInv

\* What deletion retires and discards, no other Artifact's Version needs.
LEMMA RetireUnshared ==
    ASSUME ContentInv, NEW a \in Artifacts, cleanup' = [cleanup EXCEPT ![a] = Due],
           RetireAliases(Unshared(a)), Discard(Unshared(a)),
           version' \in [Artifacts \X Bundles -> {None, "ready", "emptied"}],
           \A v \in Artifacts \X Bundles : v[1] # a => version'[v] = version[v],
           artifact' \subseteq artifact, a \in artifact' => a \in listed,
           UNCHANGED <<listed, held>>
    PROVE  ContentInv'
<1>1. /\ Due \in CleanupRow /\ Due # NoCleanup
      /\ cleanup' \in [Artifacts -> CleanupRow] /\ cleanup'[a] = Due
      /\ \A x \in Artifacts : x # a => cleanup'[x] = cleanup[x]
  BY DEF ContentInv, ContentTypes, Due, CleanupRow, NoCleanup, None
<1>2. bundle' \in [Bundles -> {None, "ready", "deleting"}]
  BY DEF ContentInv, ContentTypes, Discard
<1>3. ContentTypes' /\ KeptForListing'
  BY <1>1, <1>2 DEF ContentInv, ContentTypes, KeptForListing
<1>4. ASSUME NEW x \in Artifacts, Managed(x)', NEW b \in Bundles, version'[<<x, b>>] = "ready"
      PROVE  bundle'[b] = "ready" /\ b \notin retired'
  <2>1. x # a /\ Managed(x)
    BY <1>1, <1>4 DEF Managed
  <2>2. <<x, b>> \in Artifacts \X Bundles /\ <<x, b>>[1] # a
    BY <2>1
  <2>3. version[<<x, b>>] = "ready"
    BY <1>4, <2>2
  <2>4. b \notin Unshared(a)
    BY <2>1, <2>3 DEF Unshared, Referenced
  <2>5. bundle[b] = "ready" /\ b \notin retired
    BY <2>1, <2>3 DEF ContentInv, SharedBundlesStay, BundlesOf
  <2>6. QED
    BY <2>4, <2>5 DEF Discard, RetireAliases
<1>5. SharedBundlesStay'
  BY <1>4 DEF SharedBundlesStay, BundlesOf
<1>6. QED
  BY <1>3, <1>5 DEF ContentInv

LEMMA DeleteOwnedInv ==
    ASSUME PublicationInv, NEW a \in Artifacts, DeleteOwned(a)
    PROVE  PublicationInv'
<1>1. /\ a \in artifact /\ cleanup[a] = NoCleanup /\ cleanup' = [cleanup EXCEPT ![a] = Due]
      /\ UNCHANGED <<asking, listed, held>>
      /\ DeleteHeld(a) \/ DeleteListed(a) \/ DeleteUnlisted(a)
  BY DEF DeleteOwned, gallery
<1>2. version \in [Artifacts \X Bundles -> {None, "ready", "emptied"}] /\ artifact \subseteq Artifacts
  BY DEF PublicationInv, ContentInv, ContentTypes
<1>3. CASE DeleteHeld(a)
  <2>1. a \in listed /\ UNCHANGED <<artifact, version, bundle, retired, publication, link, recorded>>
    BY <1>3 DEF DeleteHeld, content, sharing, PublicationInv, ContentInv, KeptForListing
  <2>2. SharingInv'
    BY <1>1, <2>1 DEF PublicationInv, SharingInv, SharingTypes, asking
  <2>3. /\ cleanup' \in [Artifacts -> CleanupRow] /\ cleanup'[a] # NoCleanup
        /\ \A x \in Artifacts : x # a => cleanup'[x] = cleanup[x]
    BY <1>1 DEF PublicationInv, ContentInv, ContentTypes, Due, CleanupRow, NoCleanup, None
  <2>4. ContentTypes' /\ KeptForListing'
    BY <1>1, <2>1, <2>3 DEF PublicationInv, ContentInv, ContentTypes, KeptForListing
  <2>5. \A x \in Artifacts : Managed(x)' => Managed(x)
    BY <2>1, <2>3 DEF Managed
  <2>6. SharedBundlesStay'
    BY <2>1, <2>5 DEF PublicationInv, ContentInv, SharedBundlesStay, BundlesOf
  <2>7. QED
    BY <2>2, <2>4, <2>6 DEF PublicationInv, ContentInv
<1>4. CASE DeleteListed(a)
  <2>1. /\ version' \in [Artifacts \X Bundles -> {None, "ready", "emptied"}]
        /\ \A v \in Artifacts \X Bundles : v[1] # a => version'[v] = version[v]
    BY <1>2, <1>4 DEF DeleteListed, Emptied
  <2>2. ContentInv'
    BY <1>1, <1>4, <2>1, RetireUnshared DEF DeleteListed, PublicationInv
  <2>3. SharingInv'
    BY <1>1, <1>4, EndInv DEF DeleteListed, PublicationInv
  <2>4. QED
    BY <2>2, <2>3 DEF PublicationInv
<1>5. CASE DeleteUnlisted(a)
  <2>1. /\ version' \in [Artifacts \X Bundles -> {None, "ready", "emptied"}]
        /\ \A v \in Artifacts \X Bundles : v[1] # a => version'[v] = version[v]
    BY <1>2, <1>5 DEF DeleteUnlisted
  <2>2. artifact' \subseteq artifact /\ a \notin artifact'
    BY <1>5 DEF DeleteUnlisted
  <2>3. ContentInv'
    BY <1>1, <1>5, <2>1, <2>2, RetireUnshared DEF DeleteUnlisted, PublicationInv
  <2>4. SharingInv'
    BY <1>1, <1>5, EndInv DEF DeleteUnlisted, PublicationInv
  <2>5. QED
    BY <2>3, <2>4 DEF PublicationInv
<1>6. QED
  BY <1>1, <1>3, <1>4, <1>5

LEMMA UploadInv ==
    ASSUME ContentInv, NEW a \in Artifacts, NEW b \in Bundles, UploadVersion(a, b)
    PROVE  ContentInv'
<1>1. /\ bundle[b] # "deleting" /\ b \notin retired
      /\ version' = [version EXCEPT ![<<a, b>>] = "ready"]
      /\ bundle' = [bundle EXCEPT ![b] = "ready"]
      /\ UNCHANGED <<artifact, retired, listed, held, cleanup>>
  BY DEF UploadVersion, gallery, deletion
<1>2. ContentTypes' /\ KeptForListing'
  BY <1>1 DEF ContentInv, ContentTypes, KeptForListing
<1>3. ASSUME NEW x \in Artifacts, Managed(x)', NEW c \in Bundles, version'[<<x, c>>] = "ready"
      PROVE  bundle'[c] = "ready" /\ c \notin retired'
  <2>1. CASE c = b
    BY <1>1, <2>1 DEF ContentInv, ContentTypes
  <2>2. CASE c # b
    <3>1. <<x, c>> # <<a, b>>
      BY <2>2
    <3>2. version[<<x, c>>] = "ready" /\ bundle'[c] = bundle[c] /\ Managed(x)
      BY <1>1, <1>3, <2>2, <3>1 DEF ContentInv, ContentTypes, Managed
    <3>3. QED
      BY <1>1, <3>2 DEF ContentInv, SharedBundlesStay, BundlesOf
  <2>3. QED
    BY <2>1, <2>2
<1>4. SharedBundlesStay'
  BY <1>3 DEF SharedBundlesStay, BundlesOf
<1>5. QED
  BY <1>2, <1>4 DEF ContentInv
-----------------------------------------------------------------------------
(* Steps. *)

\* What leaves Publications and their requests alone.
LEMMA SharingStays ==
    ASSUME SharingInv, UNCHANGED <<sharing, asking>>
    PROVE  SharingInv'
  BY DEF SharingInv, SharingTypes, sharing, asking

\* What leaves content and cleanups alone; more may be listed, and held if listed.
LEMMA ContentStays ==
    ASSUME ContentInv, listed \subseteq listed', held' \subseteq listed',
           UNCHANGED <<artifact, version, bundle, retired, cleanup>>
    PROVE  ContentInv'
<1>1. ContentTypes' /\ KeptForListing'
  BY DEF ContentInv, ContentTypes, KeptForListing
<1>2. SharedBundlesStay'
  BY DEF ContentInv, SharedBundlesStay, BundlesOf, Managed
<1>3. QED
  BY <1>1, <1>2 DEF ContentInv

\* The steps that move a cleanup row and nothing that sharing or content is about.
LEMMA CleanupStepInv ==
    ASSUME ContentInv, NEW a \in Artifacts,
           \/ LeaseExpires(a) \/ CompleteDeletion(a)
           \/ \E r \in Reconcilers :
                ClaimCleanup(r, a) \/ FailCleanup(r, a) \/ CompleteUnlisted(r, a)
    PROVE  ContentInv'
<1>1. UNCHANGED <<artifact, version, bundle, retired, listed, held>>
  BY DEF ClaimCleanup, LeaseExpires, FailCleanup, CompleteUnlisted, CompleteDeletion,
         content, gallery
<1>2. cleanup \in [Artifacts -> CleanupRow] /\ held \subseteq listed
  BY DEF ContentInv, ContentTypes, KeptForListing
<1>4. CASE UNCHANGED cleanup
  BY <1>1, <1>2, <1>4, ContentStays
<1>5. ASSUME NEW row \in CleanupRow, cleanup[a] # NoCleanup,
             cleanup' = [cleanup EXCEPT ![a] = row], row = NoCleanup => a \notin listed
      PROVE  ContentInv'
  BY <1>1, <1>5, CleanupMoves
<1>6. /\ Due \in CleanupRow /\ Parked \in CleanupRow /\ NoCleanup \in CleanupRow
      /\ Due # NoCleanup /\ Parked # NoCleanup
      /\ \A r \in Reconcilers : /\ [state |-> "leased", lease |-> r] \in CleanupRow
                                 /\ [state |-> "leased", lease |-> r] # NoCleanup
  BY DEF Due, Parked, NoCleanup, CleanupRow, None
<1>7. \A r \in Reconcilers : Holds(r, a) => cleanup[a] # NoCleanup
  BY NoneAssumption DEF Holds, NoCleanup
<1>8. ASSUME NEW r \in Reconcilers, ClaimCleanup(r, a) PROVE ContentInv'
  <2>1. /\ cleanup[a].state = "due"
        /\ cleanup' = [cleanup EXCEPT ![a] = [state |-> "leased", lease |-> r]]
    BY <1>8 DEF ClaimCleanup, Claimable
  <2>2. cleanup[a] # NoCleanup
    BY <2>1 DEF NoCleanup, None
  <2>3. QED
    BY <1>5, <1>6, <2>1, <2>2
<1>9. CASE LeaseExpires(a)
  <2>1. cleanup[a].state = "leased" /\ cleanup' = [cleanup EXCEPT ![a].state = "due"]
    BY <1>9 DEF LeaseExpires
  <2>2. cleanup[a] # NoCleanup
    BY <2>1 DEF NoCleanup, None
  <2>3. PICK old \in CleanupRow : old = cleanup[a]
    BY <1>2
  <2>4. PICK row : row = [old EXCEPT !.state = "due"]
    OBVIOUS
  <2>5. row \in CleanupRow /\ row.state = "due"
    BY <2>4 DEF CleanupRow
  <2>6. row # NoCleanup
    BY <2>5 DEF NoCleanup, None
  <2>7. cleanup' = [cleanup EXCEPT ![a] = row]
    BY <2>1, <2>3, <2>4
  <2>8. QED
    BY <1>5, <2>2, <2>5, <2>6, <2>7
<1>10. ASSUME NEW r \in Reconcilers, FailCleanup(r, a) PROVE ContentInv'
  <2>1. \/ UNCHANGED cleanup
        \/ Holds(r, a) /\ cleanup' = [cleanup EXCEPT ![a] = Due]
    BY <1>10 DEF FailCleanup
  <2>2. QED
    BY <1>4, <1>5, <1>6, <1>7, <2>1
<1>11. ASSUME NEW r \in Reconcilers, CompleteUnlisted(r, a) PROVE ContentInv'
  <2>1. \/ UNCHANGED cleanup
        \/ a \notin listed /\ Holds(r, a) /\ cleanup' = [cleanup EXCEPT ![a] = NoCleanup]
    BY <1>11 DEF CompleteUnlisted
  <2>2. QED
    BY <1>4, <1>5, <1>6, <1>7, <2>1
<1>12. CASE CompleteDeletion(a)
  <2>1. \/ UNCHANGED cleanup
        \/ cleanup[a] # NoCleanup /\ cleanup' = [cleanup EXCEPT ![a] = Finished(a)]
    BY <1>12 DEF CompleteDeletion
  <2>2. Finished(a) \in CleanupRow /\ (Finished(a) = NoCleanup => a \notin listed)
    BY <1>6 DEF Finished
  <2>3. QED
    BY <1>4, <1>5, <2>1, <2>2
<1>13. QED
  BY <1>8, <1>9, <1>10, <1>11, <1>12

\* The update is refused unless no bundle is left: there is none to retire or discard.
LEMMA CompleteListedInv ==
    ASSUME PublicationInv, NEW r \in Reconcilers, NEW a \in Artifacts, CompleteListed(r, a)
    PROVE  PublicationInv'
<1>1. /\ a \in listed /\ Holds(r, a) /\ BundlesOf(a) = {}
      /\ RetireAliases(BundlesOf(a)) /\ Discard(Unshared(a)) /\ EndSharing(a)
      /\ version' = Emptied(a) /\ cleanup' = [cleanup EXCEPT ![a] = Parked]
      /\ UNCHANGED <<artifact, recorded, asking, listed, held>>
  BY DEF CompleteListed, NullsBundlesAlone, gallery
<1>2. /\ version \in [Artifacts \X Bundles -> {None, "ready", "emptied"}]
      /\ bundle \in [Bundles -> {None, "ready", "deleting"}]
  BY DEF PublicationInv, ContentInv, ContentTypes
<1>3. Unshared(a) = {}
  BY <1>1 DEF Unshared
<1>4. UNCHANGED <<bundle, retired>>
  BY <1>1, <1>2, <1>3 DEF Discard, RetireAliases
<1>5. \A v \in Artifacts \X Bundles : v[1] = a => version[v] # "ready"
  BY <1>1 DEF BundlesOf
<1>6. UNCHANGED version
  BY <1>1, <1>2, <1>5 DEF Emptied
<1>7. cleanup[a] # NoCleanup
  BY <1>1, NoneAssumption DEF Holds, NoCleanup
<1>8. Parked \in CleanupRow /\ Parked # NoCleanup
  BY DEF Parked, NoCleanup, CleanupRow, None
<1>9. ContentInv'
  BY <1>1, <1>4, <1>6, <1>7, <1>8, CleanupMoves DEF PublicationInv
<1>10. SharingInv'
  BY <1>1, EndInv DEF PublicationInv
<1>11. QED
  BY <1>9, <1>10 DEF PublicationInv

LEMMA OwnerInv ==
    ASSUME PublicationInv, OwnerNext
    PROVE  PublicationInv'
<1>1. held \subseteq listed
  BY DEF PublicationInv, ContentInv, KeptForListing
<1>2. ASSUME NEW a \in Artifacts, NEW b \in Bundles, UploadVersion(a, b)
      PROVE  PublicationInv'
  BY <1>2, UploadInv, SharingStays DEF PublicationInv, UploadVersion
<1>3. ASSUME NEW a \in Artifacts, NEW b \in Bundles, NEW k \in Keys, NEW replace \in BOOLEAN,
             Begin(a, b, k, replace)
      PROVE  PublicationInv'
  <2>1. ContentInv'
    BY <1>1, <1>3, ContentStays DEF PublicationInv, Begin, content, gallery, deletion
  <2>2. SharingInv'
    BY <1>3 DEF PublicationInv, SharingInv, SharingTypes, Begin, sharing, RequestRow
  <2>3. QED
    BY <2>1, <2>2 DEF PublicationInv
<1>4. ASSUME NEW q \in request, Unanswered(q) PROVE PublicationInv'
  <2>1. ContentInv'
    BY <1>1, <1>4, ContentStays DEF PublicationInv, Unanswered, content, gallery, deletion
  <2>2. SharingInv'
    BY <1>4 DEF PublicationInv, SharingInv, SharingTypes, Unanswered, sharing
  <2>3. QED
    BY <2>1, <2>2 DEF PublicationInv
<1>5. ASSUME NEW q \in request, Publish(q) PROVE PublicationInv'
  <2>1. ContentInv'
    BY <1>1, <1>5, ContentStays DEF PublicationInv, Publish, content, gallery, deletion
  <2>2. QED
    BY <1>5, <2>1, PublishInv DEF PublicationInv
<1>6. ASSUME NEW a \in Artifacts, Unpublish(a) \/ Expire(a) \/ UpdateExpiration(a)
      PROVE  PublicationInv'
  <2>1. ContentInv'
    BY <1>1, <1>6, ContentStays DEF PublicationInv, Unpublish, Expire, UpdateExpiration, content,
                                    gallery, deletion
  <2>2. QED
    BY <1>6, <2>1, CurrentInv DEF PublicationInv
<1>7. QED
  BY <1>2, <1>3, <1>4, <1>5, <1>6 DEF OwnerNext

LEMMA GalleryInv ==
    ASSUME PublicationInv, GalleryNext
    PROVE  PublicationInv'
<1>1. /\ listed \subseteq listed' /\ held' \subseteq listed'
      /\ UNCHANGED <<artifact, version, bundle, retired, cleanup, sharing, asking>>
  BY DEF PublicationInv, ContentInv, KeptForListing, GalleryNext, ShareToGallery, Hold, Release,
         Block, Unblock, content, deletion
<1>2. QED
  BY <1>1, SharingStays, ContentStays DEF PublicationInv

LEMMA DeleterInv ==
    ASSUME PublicationInv, DeleterNext
    PROVE  PublicationInv'
<1>1. held \subseteq listed
  BY DEF PublicationInv, ContentInv, KeptForListing
<1>2. ASSUME NEW a \in Artifacts, DeleteOwned(a) PROVE PublicationInv'
  BY <1>2, DeleteOwnedInv
<1>3. ASSUME NEW a \in Artifacts, ResumeDeletion(a) \/ DeleterErases(a) \/ DeleterFails(a)
      PROVE  PublicationInv'
  <2>1. UNCHANGED <<artifact, version, bundle, retired, cleanup, listed, held, sharing, asking>>
    BY <1>3 DEF ResumeDeletion, DeleterErases, DeleterFails, content, gallery
  <2>2. QED
    BY <1>1, <2>1, SharingStays, ContentStays DEF PublicationInv
<1>4. ASSUME NEW a \in Artifacts, CompleteDeletion(a) PROVE PublicationInv'
  <2>1. SharingInv'
    BY <1>4, SharingStays DEF PublicationInv, CompleteDeletion
  <2>2. ContentInv'
    BY <1>4, CleanupStepInv DEF PublicationInv
  <2>3. QED
    BY <2>1, <2>2 DEF PublicationInv
<1>5. QED
  BY <1>2, <1>3, <1>4 DEF DeleterNext

LEMMA ReconcilerInv ==
    ASSUME PublicationInv, ReconcilerNext
    PROVE  PublicationInv'
<1>1. held \subseteq listed
  BY DEF PublicationInv, ContentInv, KeptForListing
<1>2. ASSUME NEW r \in Reconcilers, NEW a \in Artifacts,
             ClaimCleanup(r, a) \/ FailCleanup(r, a) \/ CompleteUnlisted(r, a)
      PROVE  PublicationInv'
  <2>1. SharingInv'
    BY <1>2, SharingStays DEF PublicationInv, ClaimCleanup, FailCleanup, CompleteUnlisted
  <2>2. ContentInv'
    BY <1>2, CleanupStepInv DEF PublicationInv
  <2>3. QED
    BY <2>1, <2>2 DEF PublicationInv
<1>3. ASSUME NEW r \in Reconcilers, NEW a \in Artifacts,
             ReconcilerErases(r, a) \/ LostCleanup(r, a) \/ CompleteListedRaises(r, a)
      PROVE  PublicationInv'
  <2>1. UNCHANGED <<artifact, version, bundle, retired, cleanup, listed, held, sharing, asking>>
    BY <1>3 DEF ReconcilerErases, LostCleanup, CompleteListedRaises, content, gallery
  <2>2. QED
    BY <1>1, <2>1, SharingStays, ContentStays DEF PublicationInv
<1>4. ASSUME NEW r \in Reconcilers, NEW a \in Artifacts, CompleteListed(r, a)
      PROVE  PublicationInv'
  BY <1>4, CompleteListedInv
<1>5. ASSUME NEW r \in Reconcilers, ReconcilerEraseFails(r) \/ ReconcilerStops(r)
      PROVE  PublicationInv'
  <2>1. UNCHANGED <<artifact, version, bundle, retired, cleanup, listed, held, sharing, asking>>
    BY <1>5 DEF ReconcilerEraseFails, ReconcilerStops, content, gallery
  <2>2. QED
    BY <1>1, <2>1, SharingStays, ContentStays DEF PublicationInv
<1>6. ASSUME NEW a \in Artifacts, LeaseExpires(a) PROVE PublicationInv'
  <2>1. SharingInv'
    BY <1>6, SharingStays DEF PublicationInv, LeaseExpires
  <2>2. ContentInv'
    BY <1>6, CleanupStepInv DEF PublicationInv
  <2>3. QED
    BY <2>1, <2>2 DEF PublicationInv
<1>7. QED
  BY <1>2, <1>3, <1>4, <1>5, <1>6 DEF ReconcilerNext, Proceed
-----------------------------------------------------------------------------
(* Theorems. *)

(***************************************************************************)
(* PublicationInv is inductive: every transaction of an Owner, the Gallery,*)
(* a delete call, or a reconciler keeps it, whatever failed before.        *)
(***************************************************************************)
THEOREM PublicationInvariance == Spec => []PublicationInv
<1>1. PublicationInv /\ [Next]_vars => PublicationInv'
  <2> SUFFICES ASSUME PublicationInv, [Next]_vars PROVE PublicationInv'
    OBVIOUS
  <2>1. CASE UNCHANGED vars
    <3>1. /\ UNCHANGED <<artifact, version, bundle, retired, cleanup, listed, held>>
          /\ UNCHANGED <<sharing, asking>>
      BY <2>1 DEF vars, content, gallery, deletion
    <3>2. held \subseteq listed
      BY DEF PublicationInv, ContentInv, KeptForListing
    <3>3. QED
      BY <3>1, <3>2, SharingStays, ContentStays DEF PublicationInv
  <2>2. QED
    BY <2>1, OwnerInv, GalleryInv, DeleterInv, ReconcilerInv DEF Next
<1>2. QED
  BY <1>1, InitInv, PTL DEF Spec

\* When a Viewer is served, it is from the Publication committed last.
LEMMA PublicationInvAgrees == PublicationInv => PublicationsAgree
<1> SUFFICES ASSUME PublicationInv, NEW a \in Artifacts, NEW history \in Seq(PublicationRow),
                    history = publication[a], Resolve(a) = "published"
             PROVE  Newest(history) = Len(history)
  BY DEF PublicationInv, SharingInv, SharingTypes, HistoryOK, PublicationsAgree
<1>1. HistoryOK(history, recorded[a]) /\ history # <<>>
  BY DEF PublicationInv, SharingInv, Resolve
<1>2. Newest(history) \in DOMAIN history
  BY <1>1 DEF HistoryOK, Newest
<1>3. IsCurrent(history[Newest(history)])
  BY <1>1 DEF Resolve
<1>4. QED
  BY <1>1, <1>2, <1>3 DEF HistoryOK

(***************************************************************************)
(* Publications, Share links and idempotency records agree, and a link     *)
(* serves the Publication committed last or none, in whatever order        *)
(* overlapping publish transactions took their timestamps and whatever     *)
(* unpublishes, expires, deletes, or is retried in between.                *)
(***************************************************************************)
THEOREM HistoriesAgree == Spec => []PublicationsAgree
  BY PublicationInvariance, PublicationInvAgrees, PTL

(***************************************************************************)
(* A managed Artifact's bundles stay ready with their aliases whatever     *)
(* deletion and reconciliation do beside it; completing the deletion of a  *)
(* listed Artifact, which retires without asking, has nothing to retire.   *)
(***************************************************************************)
THEOREM SharedBundlesAreSpared == Spec => []SharedBundlesStay
<1>1. PublicationInv => SharedBundlesStay
  BY DEF PublicationInv, ContentInv
<1>2. QED
  BY <1>1, PublicationInvariance, PTL
=============================================================================
