------------------------ MODULE ArtifactIntakeProofs ------------------------
(***************************************************************************)
(* Proofs about ArtifactIntake, for any number of calls, keys, inputs,     *)
(* crashes and lost replies: all creations under one key make one          *)
(* Artifact, which is what every one of them is answered, and the input of *)
(* a session that is still needed is in storage unless its own call was    *)
(* told of a failure.                                                      *)
(***************************************************************************)
EXTENDS ArtifactIntake, TLAPS

Ops == {"create_artifact", "upload_version", "replace_upload", "retry_upload"}
RecordRow ==
    [op : Ops, on : Calls \union {None}, key : Keys, by : Calls, state : {"pending", "completed"},
     input : Inputs \union {None}, answer : Calls \union {None}]

\* A call is a record of these fields; nothing below depends on what previous holds.
IsCall(r) ==
    /\ r = [at |-> r.at, op |-> r.op, on |-> r.on, key |-> r.key, input |-> r.input,
            previous |-> r.previous, answer |-> r.answer]
    /\ r.op \in Ops => r.on \in Calls \union {None} /\ r.key \in Keys /\ r.input \in Inputs \union {None}

\* Calls, records and the list of sessions have their types.
TypesOK ==
    /\ call = [c \in Calls |-> call[c]]
    /\ \A c \in Calls : IsCall(call[c])
    /\ record \subseteq RecordRow
    /\ made \in Seq(Calls)

\* One record for each operation, subject and key; a pending one is its call's.
RecordsOK ==
    /\ \A d, e \in record : d.op = e.op /\ d.on = e.on /\ d.key = e.key => d = e
    /\ \A d \in record : d.state = "pending" =>
          LET c == call[d.by] IN c.at # "new" /\ c.op = d.op /\ c.on = d.on /\ c.key = d.key

Made(c)    == c \in {made[i] : i \in DOMAIN made}
Creates(c) == call[c].op = "create_artifact"
Over       == {"answered", "failing", "releasing", "refused", "crashed"}

\* The completed record of a creation, with its answer.
Tells(d, c, answer) ==
    /\ d.op = "create_artifact" /\ d.on = None /\ d.key = call[c].key /\ d.state = "completed"
    /\ d.answer = answer /\ d.input = call[c].input

\* A call that made its session has committed, and a creation that did, or was answered,
\* is told by its record.
CallOK(c) ==
    /\ call[c].at = "new" => call[c].op = None
    /\ Creates(c) => call[c].on = None
    /\ Made(c) => call[c].at \in Over
    /\ Creates(c) /\ Made(c) => \E d \in record : Tells(d, c, c)
    /\ Creates(c) /\ call[c].at = "answered" => \E d \in record : Tells(d, c, call[c].answer)

IntakeInv == TypesOK /\ RecordsOK /\ \A c \in Calls : CallOK(c)
-----------------------------------------------------------------------------
\* A call with another answer, or elsewhere with another answer, asks the same.
Edited(r, at, w) == [r EXCEPT !.at = at, !.answer = w]
AsksTheSame(e, r) ==
    IsCall(e) /\ e.op = r.op /\ e.on = r.on /\ e.key = r.key /\ e.input = r.input

LEMMA AnsweredCall ==
    ASSUME NEW r, IsCall(r), NEW w
    PROVE  \E e : /\ e = [r EXCEPT !.answer = w]
                 /\ AsksTheSame(e, r) /\ e.at = r.at /\ e.answer = w
<1> DEFINE e == [r EXCEPT !.answer = w]
<1>1. /\ IsCall(e) /\ e.op = r.op /\ e.on = r.on /\ e.key = r.key /\ e.input = r.input
      /\ e.at = r.at /\ e.answer = w
  BY DEF IsCall
<1>2. QED
  BY <1>1 DEF AsksTheSame

LEMMA MovedCall ==
    ASSUME NEW r, IsCall(r), NEW at
    PROVE  \E e : e = [r EXCEPT !.at = at] /\ AsksTheSame(e, r) /\ e.at = at
<1> DEFINE e == [r EXCEPT !.at = at]
<1>1. IsCall(e) /\ e.op = r.op /\ e.on = r.on /\ e.key = r.key /\ e.input = r.input /\ e.at = at
  BY DEF IsCall
<1>2. QED
  BY <1>1 DEF AsksTheSame

LEMMA EditedCall ==
    ASSUME NEW r, IsCall(r), NEW at, NEW w
    PROVE  LET e == Edited(r, at, w) IN AsksTheSame(e, r) /\ e.at = at /\ e.answer = w
<1>1. PICK f : f = [r EXCEPT !.at = at] /\ AsksTheSame(f, r) /\ f.at = at
  BY MovedCall
<1>2. Edited(r, at, w) = [[r EXCEPT !.at = at] EXCEPT !.answer = w]
  BY DEF Edited
<1>3. IsCall(f)
  BY <1>1 DEF AsksTheSame
<1>4. PICK e : e = [f EXCEPT !.answer = w] /\ AsksTheSame(e, f) /\ e.at = f.at /\ e.answer = w
  BY <1>3, AnsweredCall
<1>5. Edited(r, at, w) = e
  BY <1>1, <1>2, <1>4
<1>6. QED
  BY <1>1, <1>4, <1>5 DEF AsksTheSame

LEMMA InitInv == Init => IntakeInv
<1> SUFFICES ASSUME Init PROVE IntakeInv
  OBVIOUS
<1>1. TypesOK
  BY DEF Init, TypesOK, IsCall, NewCall, Ops, None
<1>2. RecordsOK
  BY DEF Init, RecordsOK
<1>3. \A c \in Calls : CallOK(c)
  BY DEF Init, CallOK, Made, Creates, NewCall, None
<1>4. QED
  BY <1>1, <1>2, <1>3 DEF IntakeInv

\* Calls, records and sessions stay as they are.
LEMMA SameCalls ==
    ASSUME IntakeInv, UNCHANGED <<call, record, made>>
    PROVE  IntakeInv'
BY DEF IntakeInv, TypesOK, RecordsOK, CallOK, Made, Creates, Tells

\* A call goes on, and answers nobody; completed records of creations are kept.
LEMMA GoesOn ==
    ASSUME IntakeInv, NEW c \in Calls, NEW at, Goto(c, at),
           at # "new", at # "answered", Made(c) => at \in Over, call[c].at # "new",
           record' \subseteq record, \A d \in record : d.state = "completed" => d \in record',
           UNCHANGED made
    PROVE  IntakeInv'
<1>1. IsCall(call[c]) /\ call[c].op = call'[c].op /\ call[c].on = call'[c].on
      /\ call[c].key = call'[c].key /\ call[c].input = call'[c].input /\ call'[c].at = at
  BY DEF IntakeInv, TypesOK, Goto, IsCall
<1>2. \A x \in Calls : x # c => call'[x] = call[x]
  BY DEF IntakeInv, TypesOK, Goto
<1>3. TypesOK'
  <2>1. IsCall(call'[c])
    BY <1>1 DEF Goto, IsCall, IntakeInv, TypesOK
  <2>2. call' = [x \in Calls |-> call'[x]]
    BY DEF Goto, IntakeInv, TypesOK
  <2>3. QED
    BY <1>2, <2>1, <2>2 DEF IntakeInv, TypesOK
<1>4. RecordsOK'
  BY <1>1, <1>2 DEF IntakeInv, TypesOK, RecordsOK, RecordRow
<1>5. ASSUME NEW x \in Calls PROVE CallOK(x)'
  <2>1. CallOK(x)
    BY DEF IntakeInv
  <2>2. \A d \in record : \A a : Tells(d, x, a) => d \in record' /\ Tells(d, x, a)'
    BY <1>1, <1>2 DEF Tells
  <2>3. CASE x = c
    BY <1>1, <2>1, <2>2, <2>3 DEF CallOK, Made, Creates
  <2>4. CASE x # c
    BY <1>2, <2>1, <2>2, <2>4 DEF CallOK, Made, Creates
  <2>5. QED
    BY <2>3, <2>4
<1>6. QED
  BY <1>3, <1>4, <1>5 DEF IntakeInv
-----------------------------------------------------------------------------
(* Beginning a call. *)

\* A claim's call asks what it was sent: it goes on, or answers what is stored, or refuses.
LEMMA ClaimRow ==
    ASSUME NEW c \in Calls, NEW asked, NEW next, IsCall(asked), next # "new", next # "answered",
           Claim(c, asked, next)
    PROVE  LET found == Under(asked.op, asked.on, asked.key)
               new   == [op |-> asked.op, on |-> asked.on, key |-> asked.key, by |-> c,
                         state |-> "pending", input |-> None, answer |-> None]
           IN  \E row :
                 /\ call' = [call EXCEPT ![c] = row] /\ IsCall(row)
                 /\ row.op = asked.op /\ row.on = asked.on /\ row.key = asked.key
                 /\ row.input = asked.input
                 /\ row.at \in {next, "answered", "refused"}
                 /\ row.at = "answered" => \E d \in found : /\ d.state = "completed"
                                                            /\ d.input = asked.input
                                                            /\ d.answer = row.answer
                 /\ record' = IF found = {} THEN record \union {new} ELSE record
<1> DEFINE found == Under(asked.op, asked.on, asked.key)
           new == [op |-> asked.op, on |-> asked.on, key |-> asked.key, by |-> c,
                   state |-> "pending", input |-> None, answer |-> None]
<1>1. CASE found = {}
  <2>1. IsCall([asked EXCEPT !.at = next])
    BY DEF IsCall
  <2>2. QED
    BY <1>1, <2>1 DEF Claim, IsCall
<1>2. CASE found # {}
  <2>1. PICK d \in found : call' = [call EXCEPT ![c] =
            IF Replies(asked, d) THEN [asked EXCEPT !.at = "answered", !.answer = d.answer]
            ELSE [asked EXCEPT !.at = "refused"]]
    BY <1>2 DEF Claim
  <2>2. record' = record
    BY <1>2 DEF Claim
  <2>3. CASE Replies(asked, d)
    <3> DEFINE e == Edited(asked, "answered", d.answer)
    <3>1. AsksTheSame(e, asked) /\ e.at = "answered" /\ e.answer = d.answer
      BY EditedCall
    <3>2. call' = [call EXCEPT ![c] = e]
      BY <2>1, <2>3 DEF Edited
    <3> HIDE DEF e
    <3>3. QED
      BY <1>2, <2>2, <2>3, <3>1, <3>2 DEF Replies, AsksTheSame
  <2>4. CASE ~Replies(asked, d)
    <3>1. IsCall([asked EXCEPT !.at = "refused"])
      BY DEF IsCall
    <3>2. QED
      BY <1>2, <2>1, <2>2, <2>4, <3>1 DEF IsCall
  <2>5. QED
    BY <2>3, <2>4
<1>3. QED
  BY <1>1, <1>2

LEMMA ClaimInv ==
    ASSUME IntakeInv, NEW c \in Calls, call[c].at = "new", NEW asked, NEW next,
           IsCall(asked), asked.op \in Ops, asked.op = "create_artifact" => asked.on = None,
           next # "new", next # "answered",
           Claim(c, asked, next), UNCHANGED made
    PROVE  IntakeInv'
<1> DEFINE found == Under(asked.op, asked.on, asked.key)
           new == [op |-> asked.op, on |-> asked.on, key |-> asked.key, by |-> c,
                   state |-> "pending", input |-> None, answer |-> None]
<1>1. /\ asked.on \in Calls \union {None} /\ asked.key \in Keys
      /\ asked.input \in Inputs \union {None}
  BY DEF IsCall
<1>2. PICK row :
        /\ call' = [call EXCEPT ![c] = row] /\ IsCall(row)
        /\ row.op = asked.op /\ row.on = asked.on /\ row.key = asked.key /\ row.input = asked.input
        /\ row.at # "new"
        /\ row.at = "answered" => \E d \in found : /\ d.state = "completed" /\ d.input = asked.input
                                                   /\ d.answer = row.answer
        /\ record' = IF found = {} THEN record \union {new} ELSE record
  BY ClaimRow
<1>3. new \in RecordRow
  BY <1>1 DEF RecordRow
<1>4. \A d \in found : d \in record /\ d.op = asked.op /\ d.on = asked.on /\ d.key = asked.key
  BY DEF Under
<1>5. \A d \in record : d.op = asked.op /\ d.on = asked.on /\ d.key = asked.key => d \in found
  BY DEF Under
<1>6. /\ new.op = asked.op /\ new.on = asked.on /\ new.key = asked.key /\ new.by = c
      /\ new.state = "pending"
  OBVIOUS
<1> HIDE DEF found, new
<1>7. call'[c] = row /\ \A x \in Calls : x # c => call'[x] = call[x]
  BY <1>2 DEF IntakeInv, TypesOK
<1>8. record \subseteq record' /\ record' \subseteq record \union {new} /\ (found # {} => record' = record)
  BY <1>2
<1>9. TypesOK'
  <2>1. call' = [x \in Calls |-> call'[x]]
    BY <1>2 DEF IntakeInv, TypesOK
  <2>2. \A x \in Calls : IsCall(call'[x])
    BY <1>2, <1>7 DEF IntakeInv, TypesOK
  <2>3. QED
    BY <1>3, <1>8, <2>1, <2>2 DEF IntakeInv, TypesOK
<1>10. RecordsOK'
  <2>1. \A d \in record : d.state = "pending" => d.by # c /\ d.by \in Calls
    BY DEF IntakeInv, TypesOK, RecordsOK, RecordRow
  <2>2. \A d, e \in record' : d.op = e.op /\ d.on = e.on /\ d.key = e.key => d = e
    BY <1>5, <1>6, <1>8 DEF IntakeInv, RecordsOK
  <2>3. ASSUME NEW d \in record', d.state = "pending"
        PROVE  /\ call'[d.by].at # "new" /\ call'[d.by].op = d.op
               /\ call'[d.by].on = d.on /\ call'[d.by].key = d.key
    <3>1. CASE d \in record
      BY <1>7, <2>1, <2>3, <3>1 DEF IntakeInv, RecordsOK
    <3>2. CASE d = new
      BY <1>2, <1>6, <1>7, <3>2
    <3>3. QED
      BY <1>8, <3>1, <3>2
  <2>4. QED
    BY <2>2, <2>3 DEF RecordsOK
<1>11. ASSUME NEW x \in Calls PROVE CallOK(x)'
  <2>1. CallOK(x)
    BY DEF IntakeInv
  <2>2. CASE x # c
    BY <1>7, <1>8, <2>1, <2>2 DEF CallOK, Made, Creates, Tells
  <2>3. CASE x = c
    <3>1. ~Made(c)
      BY <2>1, <2>3 DEF CallOK, Over
    <3>2. ASSUME row.op = "create_artifact", row.at = "answered"
          PROVE  \E d \in record' : Tells(d, c, row.answer)'
      BY <1>2, <1>4, <1>7, <1>8, <3>2 DEF Tells
    <3>3. QED
      BY <1>2, <1>7, <2>3, <3>1, <3>2 DEF CallOK, Made, Creates, Ops, None
  <2>4. QED
    BY <2>2, <2>3
<1>12. QED
  BY <1>9, <1>10, <1>11 DEF IntakeInv

LEMMA AskedIsCall ==
    ASSUME NEW op \in Ops, NEW a \in Calls \union {None}, NEW k \in Keys,
           NEW i \in Inputs \union {None}, NEW previous
    PROVE  IsCall(Asked(op, a, k, i, previous)) /\ Asked(op, a, k, i, previous).op = op
           /\ Asked(op, a, k, i, previous).on = a
BY DEF Asked, IsCall

\* Every call begins with a claim; a retry has nothing to write, the others write first.
LEMMA BeginsWithClaim ==
    ASSUME NEW c \in Calls, Begin(c)
    PROVE  \E asked, next :
              /\ call[c].at = "new" /\ Claim(c, asked, next)
              /\ IsCall(asked) /\ asked.op \in Ops
              /\ asked.op = "create_artifact" => asked.on = None
              /\ next \in {"writing", "releasing", "committing"}
              /\ next = "committing" => asked.op = "retry_upload"
              /\ UNCHANGED <<made, session, owned, store>>
<1> PICK k \in Keys : \/ \E i \in Inputs : Create(c, k, i) \/ \E a \in Calls : Replace(c, a, k, i)
                      \/ \E s \in Calls : Retry(c, s, k)
  BY DEF Begin
<1> DEFINE Begins(asked, next) ==
             /\ call[c].at = "new" /\ Claim(c, asked, next)
             /\ IsCall(asked) /\ asked.op \in Ops
             /\ asked.op = "create_artifact" => asked.on = None
             /\ next \in {"writing", "releasing", "committing"}
             /\ next = "committing" => asked.op = "retry_upload"
             /\ UNCHANGED <<made, session, owned, store>>
<1>1. ASSUME NEW i \in Inputs, Create(c, k, i) PROVE \E asked, next : Begins(asked, next)
  <2> DEFINE asked == Asked("create_artifact", None, k, i, None)
  <2>1. IsCall(asked) /\ asked.op = "create_artifact" /\ asked.on = None
    <3>1. /\ "create_artifact" \in Ops /\ None \in Calls \union {None}
          /\ i \in Inputs \union {None}
      BY DEF Ops
    <3>2. QED
      BY <3>1, AskedIsCall
  <2>2. call[c].at = "new" /\ Claim(c, asked, "writing") /\ UNCHANGED <<made, session, owned, store>>
    BY <1>1 DEF Create, Fresh
  <2> HIDE DEF asked
  <2>3. Begins(asked, "writing")
    BY <2>1, <2>2 DEF Ops
  <2> HIDE DEF Begins
  <2>4. QED
    BY <2>3
<1>2. ASSUME NEW i \in Inputs, NEW a \in Calls, Replace(c, a, k, i)
      PROVE  \E asked, next : Begins(asked, next)
  <2> DEFINE previous == IF Kept(a) = {} THEN None ELSE Current(a)
             op == IF CreatesVersion(a) THEN "upload_version" ELSE "replace_upload"
             asked == Asked(op, a, k, i, previous)
             next == IF Accepts(a) THEN "writing" ELSE "releasing"
  <2>1. op \in Ops /\ op # "create_artifact" /\ next \in {"writing", "releasing"}
    BY DEF Ops
  <2>2. call[c].at = "new" /\ Claim(c, asked, next) /\ UNCHANGED <<made, session, owned, store>>
    BY <1>2 DEF Replace, Fresh
  <2> HIDE DEF previous, op, next
  <2>3. IsCall(asked) /\ asked.op = op
    BY <2>1, AskedIsCall
  <2> HIDE DEF asked
  <2>4. Begins(asked, next)
    BY <2>1, <2>2, <2>3
  <2> HIDE DEF Begins
  <2>5. QED
    BY <2>4
<1>3. ASSUME NEW s \in Calls, Retry(c, s, k) PROVE \E asked, next : Begins(asked, next)
  <2> DEFINE asked == Asked("retry_upload", s, k, None, s)
  <2>1. IsCall(asked) /\ asked.op = "retry_upload"
    BY AskedIsCall DEF Ops
  <2>2. call[c].at = "new" /\ Claim(c, asked, "committing")
        /\ UNCHANGED <<made, session, owned, store>>
    BY <1>3 DEF Retry, Fresh
  <2> HIDE DEF asked
  <2>3. Begins(asked, "committing")
    BY <2>1, <2>2 DEF Ops
  <2> HIDE DEF Begins
  <2>4. QED
    BY <2>3
<1>4. QED
  BY <1>1, <1>2, <1>3

LEMMA BeginInv ==
    ASSUME IntakeInv, NEW c \in Calls, Begin(c)
    PROVE  IntakeInv'
BY BeginsWithClaim, ClaimInv
-----------------------------------------------------------------------------
(* The commit. *)

LEMMA CommitInv ==
    ASSUME IntakeInv, NEW c \in Calls, Commits(c), NEW row, call' = [call EXCEPT ![c] = row],
           IsCall(row), row.op = call[c].op, row.on = call[c].on, row.key = call[c].key,
           row.input = call[c].input, row.at \in Over, row.at = "answered" => row.answer = Answer(c)
    PROVE  IntakeInv'
<1> DEFINE done(d) == [d EXCEPT !.state = "completed", !.input = call[c].input, !.answer = Answer(c)]
<1>1. PICK m \in record : m.by = c /\ m.state = "pending"
  BY DEF Commits, Committable, Mine
<1>2. m \in RecordRow /\ m.op = call[c].op /\ m.on = call[c].on /\ m.key = call[c].key
  BY <1>1 DEF IntakeInv, TypesOK, RecordsOK
<1>3. Mine(c) = {m}
  BY <1>1, <1>2 DEF Mine, IntakeInv, TypesOK, RecordsOK
<1>4. call[c].op \in Ops /\ IsCall(call[c]) /\ call[c].at = "committing"
  BY <1>2 DEF RecordRow, IntakeInv, TypesOK, Commits
<1>5. Answer(c) \in Calls \union {None} /\ call[c].input \in Inputs \union {None}
      /\ call[c].on \in Calls \union {None}
  BY <1>4 DEF Answer, IsCall
<1>6. PICK e \in RecordRow :
        /\ record' = (record \ {m}) \union {e}
        /\ e.op = m.op /\ e.on = m.on /\ e.key = m.key
        /\ e.state = "completed" /\ e.answer = Answer(c) /\ e.input = call[c].input
  <2>1. record' = (record \ {m}) \union {done(m)}
    BY <1>3 DEF Commits, Completes
  <2>2. /\ done(m) \in RecordRow /\ done(m).op = m.op /\ done(m).on = m.on /\ done(m).key = m.key
        /\ done(m).state = "completed" /\ done(m).answer = Answer(c)
        /\ done(m).input = call[c].input
    BY <1>2, <1>5 DEF RecordRow
  <2> HIDE DEF done
  <2>3. QED
    BY <2>1, <2>2
<1>7. call'[c] = row /\ \A x \in Calls : x # c => call'[x] = call[x]
  BY DEF IntakeInv, TypesOK
<1>8. made' = made \/ made' = Append(made, c)
  BY DEF Commits, CommitAccepted, CommitVersionUpload, CommitReplacement, QueueManualRetry,
       InsertsSession
<1>9. made' \in Seq(Calls) /\ \A x \in Calls : Made(x)' => Made(x) \/ x = c
  <2>1. CASE made' = made
    BY <2>1 DEF IntakeInv, TypesOK, Made
  <2>2. CASE made' = Append(made, c)
    BY <2>2 DEF IntakeInv, TypesOK, Made
  <2>3. QED
    BY <1>8, <2>1, <2>2
<1>10. TypesOK'
  <2>1. call' = [x \in Calls |-> call'[x]]
    BY DEF IntakeInv, TypesOK
  <2>2. \A x \in Calls : IsCall(call'[x])
    BY <1>7 DEF IntakeInv, TypesOK
  <2>3. QED
    BY <1>6, <1>9, <2>1, <2>2 DEF IntakeInv, TypesOK
<1>11. RecordsOK'
  <2>1. \A d, f \in record' : d.op = f.op /\ d.on = f.on /\ d.key = f.key => d = f
    BY <1>6 DEF IntakeInv, RecordsOK
  <2>2. ASSUME NEW d \in record', d.state = "pending"
        PROVE  /\ call'[d.by].at # "new" /\ call'[d.by].op = d.op
               /\ call'[d.by].on = d.on /\ call'[d.by].key = d.key
    <3>1. d \in record /\ d.by \in Calls
      BY <1>6, <2>2 DEF IntakeInv, TypesOK, RecordRow
    <3>2. QED
      BY <1>7, <2>2, <3>1 DEF IntakeInv, RecordsOK, Over
  <2>3. QED
    BY <2>1, <2>2 DEF RecordsOK
<1>12. ASSUME NEW x \in Calls PROVE CallOK(x)'
  <2>1. CallOK(x)
    BY DEF IntakeInv
  <2>2. CASE x # c
    <3>1. \A d \in record : \A a : Tells(d, x, a) => d \in record' /\ Tells(d, x, a)'
      BY <1>1, <1>6, <1>7, <2>2 DEF Tells
    <3>2. QED
      BY <1>7, <1>9, <2>1, <2>2, <3>1 DEF CallOK, Creates
  <2>3. CASE x = c
    <3>1. Creates(c) => Answer(c) = c /\ call[c].on = None
      BY <2>1, <2>3 DEF CallOK, Creates, Answer
    <3>2. Creates(c) => e \in record' /\ Tells(e, c, c)'
      BY <1>2, <1>6, <1>7, <3>1 DEF Creates, Tells
    <3>3. Creates(c)' = Creates(c)
      BY <1>7 DEF Creates
    <3>4. QED
      BY <1>7, <2>3, <3>1, <3>2, <3>3 DEF CallOK, Creates, Over
  <2>4. QED
    BY <2>2, <2>3
<1>13. QED
  BY <1>10, <1>11, <1>12 DEF IntakeInv

LEMMA StepInv ==
    ASSUME IntakeInv, NEW c \in Calls, Step(c) \/ Crash(c)
    PROVE  IntakeInv'
<1>1. IsCall(call[c]) /\ CallOK(c) /\ call = [x \in Calls |-> call[x]]
  BY DEF IntakeInv, TypesOK
<1>2. CASE Commit(c)
  <2> DEFINE row == Edited(call[c], "answered", Answer(c))
  <2>1. AsksTheSame(row, call[c]) /\ row.at = "answered" /\ row.answer = Answer(c)
    BY <1>1, EditedCall
  <2>2. call' = [call EXCEPT ![c] = row]
    BY <1>1, <1>2 DEF Commit, Edited
  <2> HIDE DEF row
  <2>3. QED
    BY <1>2, <2>1, <2>2, CommitInv DEF Commit, Over, AsksTheSame
<1>3. CASE CommitUnheard(c)
  <2> DEFINE row == [call[c] EXCEPT !.at = Undo(c)]
  <2>1. /\ IsCall(row) /\ row.op = call[c].op /\ row.on = call[c].on /\ row.key = call[c].key
        /\ row.input = call[c].input /\ row.at \in Over /\ row.at # "answered"
    BY <1>1 DEF IsCall, Undo, Over
  <2>2. call' = [call EXCEPT ![c] = row]
    BY <1>1, <1>3 DEF CommitUnheard, Goto
  <2> HIDE DEF row
  <2>3. QED
    BY <1>3, <2>1, <2>2, CommitInv DEF CommitUnheard
<1>4. CASE ReleasePending(c)
  <2>1. record' \subseteq record /\ \A d \in record : d.state = "completed" => d \in record'
    BY <1>4 DEF ReleasePending, Released, Mine
  <2>2. QED
    BY <1>4, <2>1, GoesOn DEF ReleasePending, Over
<1>5. CASE WriteRawZip(c) \/ WriteFails(c) \/ RejectInput(c) \/ CommitFails(c) \/ Discard(c) \/ Crash(c)
  <2>1. PICK at : Goto(c, at) /\ at # "new" /\ at # "answered" /\ (Made(c) => at \in Over)
    BY <1>1, <1>5 DEF WriteRawZip, WriteFails, RejectInput, CommitFails, Discard, Crash, Undo,
         Over, CallOK
  <2>2. call[c].at # "new" /\ UNCHANGED <<record, made>>
    BY <1>5 DEF WriteRawZip, WriteFails, RejectInput, CommitFails, Discard, Crash, InFlight
  <2>3. QED
    BY <2>1, <2>2, GoesOn
<1>6. QED
  BY <1>2, <1>3, <1>4, <1>5 DEF Step
-----------------------------------------------------------------------------
(* The theorems. *)

\* The deletion of an Artifact takes the records about it, and a creation's is about none.
LEMMA DeleteInv ==
    ASSUME IntakeInv, NEW a \in Calls, Delete(a)
    PROVE  IntakeInv'
<1>1. /\ record' \subseteq record /\ UNCHANGED <<call, made>>
      /\ \A d \in record : d.on = None => d \in record'
  BY NoneAssumption DEF Delete
<1>2. TypesOK' /\ RecordsOK'
  BY <1>1 DEF IntakeInv, TypesOK, RecordsOK
<1>3. \A c \in Calls : CallOK(c)'
  BY <1>1 DEF IntakeInv, CallOK, Made, Creates, Tells
<1>4. QED
  BY <1>2, <1>3 DEF IntakeInv

\* The inductive invariant: one record for each key, kept from its completion on, tells
\* what the creation under it made.
THEOREM IntakeInvariance == Spec => []IntakeInv
<1>1. IntakeInv /\ [Next]_vars => IntakeInv'
  <2> SUFFICES ASSUME IntakeInv, [Next]_vars PROVE IntakeInv'
    OBVIOUS
  <2>1. CASE UNCHANGED vars
    BY <2>1, SameCalls DEF vars
  <2>2. ASSUME NEW s \in Calls, Process(s) \/ ShareToGallery(s) \/ ScanDeletes(s) PROVE IntakeInv'
    BY <2>2, SameCalls DEF Process, ShareToGallery, ScanDeletes
  <2>3. CASE ScanFinds
    BY <2>3, SameCalls DEF ScanFinds
  <2>4. QED
    BY <2>1, <2>2, <2>3, BeginInv, StepInv, DeleteInv DEF Next
<1>2. QED
  BY <1>1, InitInv, PTL DEF Spec

\* Creations repeated under one key, answered or not, make one Artifact between them, and
\* every answer names it and is for the input it was made of.
THEOREM CreationsCollapse == Spec => []CreatedOnce
<1>1. IntakeInv => CreatedOnce
  <2> SUFFICES ASSUME IntakeInv, NEW c \in Calls, NEW d \in Calls,
                      Creates(c), Made(c), Creates(d), call[d].key = call[c].key,
                      Made(d) \/ call[d].at = "answered"
               PROVE  /\ Made(d) => c = d
                      /\ call[d].at = "answered" =>
                            call[d].answer = c /\ call[d].input = call[c].input
    BY DEF CreatedOnce, Made, Creates
  <2>1. PICK e \in record : Tells(e, c, c)
    BY DEF IntakeInv, CallOK
  <2>2. \A f \in record : \A a : Tells(f, d, a) => f = e
    BY <2>1 DEF IntakeInv, RecordsOK, Tells
  <2>3. QED
    BY <2>1, <2>2 DEF IntakeInv, CallOK, Tells
<1>2. QED
  BY <1>1, IntakeInvariance, PTL
-----------------------------------------------------------------------------
(* What keeps the input of a session. *)

Ended == {"answered", "refused", "crashed"}

SessionRow ==
    [on : Calls \union {None}, superseded : BOOLEAN,
     state : {None, "accepted", "failed", "retryable", "committed"}]

\* Only a call that has committed has a session, and a retry never has its own.
SessionsOK ==
    /\ session \in [Calls -> SessionRow]
    /\ \A c \in Calls : session[c].state # None =>
          call[c].at \in Over /\ call[c].op # "retry_upload"

\* A call that brings input in has written it before it commits.
WritesOK ==
    /\ raw \subseteq Calls
    /\ \A c \in Calls :
        /\ c \in raw => call[c].at \notin {"new", "writing"}
        /\ call[c].at = "committing" /\ call[c].op # "retry_upload" => c \in raw

\* What the scan has found removable stays so until it is deleted.
ScanOK == \A o \in doomed : o \in Calls /\ call[o].at \in Ended /\ Removable(o)

InputInv == SessionsOK /\ WritesOK /\ ScanOK /\ InputIsRetained

LEMMA InitInput == Init => InputInv
<1> SUFFICES ASSUME Init PROVE InputInv
  OBVIOUS
<1>1. SessionsOK
  BY DEF Init, SessionsOK, SessionRow, NoSession
<1>2. WritesOK /\ ScanOK /\ InputIsRetained
  BY DEF Init, WritesOK, ScanOK, InputIsRetained, NoSession, NewCall, None
<1>3. QED
  BY <1>1, <1>2 DEF InputInv

\* Sessions and objects stay as they are while a call goes on, a writer to its commit.
LEMMA CallMoves ==
    ASSUME InputInv, NEW c \in Calls, NEW row, call' = [call EXCEPT ![c] = row],
           call = [x \in Calls |-> call[x]],
           UNCHANGED <<session, store, hidden>>,
           row.at # "new", row.at # "writing" \/ call[c].at = "new",
           call[c].at \notin Ended,
           row.at = "committing" => row.op = "retry_upload",
           session[c].state # None => row.at \in Over /\ row.op = call[c].op,
           call[c].at = "releasing" => row.at \in {"refused", "crashed"}
    PROVE  InputInv'
<1> USE DEF InputInv, store
<1>1. call'[c] = row /\ \A x \in Calls : x # c => call'[x] = call[x]
  OBVIOUS
<1>2. SessionsOK'
  BY <1>1 DEF SessionsOK
<1>3. WritesOK'
  BY <1>1 DEF WritesOK
<1>4. ScanOK'
  BY <1>1 DEF ScanOK, Removable
<1>5. InputIsRetained'
  BY <1>1 DEF InputIsRetained, Ended
<1>6. QED
  BY <1>2, <1>3, <1>4, <1>5

\* Calls stay where they are while sessions and objects end.
LEMMA SessionsEnd ==
    ASSUME InputInv, UNCHANGED call,
           session' \in [Calls -> SessionRow],
           raw' \subseteq raw, doomed' \subseteq Calls, hidden \subseteq hidden',
           \A s \in Calls : session'[s].state # None => session[s].state # None,
           \A o \in doomed' : call[o].at \in Ended /\ Removable(o)',
           \A c \in Calls : c \in raw /\ c \notin raw' =>
              \/ call[c].at \in Ended /\ Removable(c)'
              \/ session[c].state # None /\ (session'[c].on \in hidden' \/ session'[c].state = None),
           \A s \in Calls : session'[s].state \in {"accepted", "retryable"} /\ ~session'[s].superseded =>
              /\ session[s].state \in {"accepted", "retryable"} /\ ~session[s].superseded
              /\ session'[s].on = session[s].on
    PROVE  InputInv'
<1> USE DEF InputInv
<1>1. SessionsOK'
  BY DEF SessionsOK
<1>2. WritesOK'
  BY DEF WritesOK, SessionsOK, Ended, Over
<1>3. ScanOK'
  BY DEF ScanOK
<1>4. InputIsRetained'
  BY DEF InputIsRetained, Removable, None
<1>5. QED
  BY <1>1, <1>2, <1>3, <1>4

\* Beginning a call, and the steps of one that change neither sessions nor objects.
LEMMA CallInput ==
    ASSUME IntakeInv, InputInv, NEW c \in Calls,
           \/ Begin(c) \/ WriteFails(c) \/ RejectInput(c) \/ CommitFails(c)
           \/ ReleasePending(c) \/ Crash(c)
    PROVE  InputInv'
<1>1. /\ call = [x \in Calls |-> call[x]] /\ IsCall(call[c])
      /\ call[c].at = "new" => session[c].state = None
  BY DEF IntakeInv, TypesOK, InputInv, SessionsOK, Over
<1>2. CASE Begin(c)
  <2>1. PICK asked, next : /\ call[c].at = "new" /\ Claim(c, asked, next)
                           /\ IsCall(asked)
                           /\ next \in {"writing", "releasing", "committing"}
                           /\ next = "committing" => asked.op = "retry_upload"
                           /\ UNCHANGED <<session, store, hidden>>
    BY <1>2, BeginsWithClaim DEF owned
  <2>2. PICK row : /\ call' = [call EXCEPT ![c] = row] /\ row.op = asked.op
                   /\ row.at \in {next, "answered", "refused"}
    BY <2>1, ClaimRow
  <2>3. QED
    BY <1>1, <2>1, <2>2, CallMoves DEF Ended
<1>3. CASE ~Begin(c)
  <2>1. PICK at : /\ Goto(c, at)
                  /\ at \in {"releasing", "failing", "refused", "crashed"}
                  /\ call[c].at = "releasing" => at \in {"refused", "crashed"}
    BY <1>3 DEF WriteFails, RejectInput, CommitFails, ReleasePending, Crash, Undo
  <2>2. call[c].at \notin Ended /\ UNCHANGED <<session, store, hidden>>
    BY <1>3 DEF WriteFails, RejectInput, CommitFails, ReleasePending, Crash, InFlight, Ended, owned
  <2>3. PICK row : call' = [call EXCEPT ![c] = row] /\ AsksTheSame(row, call[c]) /\ row.at = at
    BY <1>1, <2>1, MovedCall DEF Goto
  <2>4. QED
    BY <1>1, <2>1, <2>2, <2>3, CallMoves DEF AsksTheSame, Over
<1>4. QED
  BY <1>2, <1>3

\* The write of the body, and the discarding of what a failed call wrote.
LEMMA WriteInput ==
    ASSUME IntakeInv, InputInv, NEW c \in Calls, WriteRawZip(c) \/ Discard(c)
    PROVE  InputInv'
<1> USE DEF InputInv
<1>1. call = [x \in Calls |-> call[x]] /\ IsCall(call[c])
  BY DEF IntakeInv, TypesOK
<1>2. PICK at : /\ Goto(c, at)
                /\ \/ call[c].at = "writing" /\ at = "committing" /\ raw' = raw \union {c}
                   \/ call[c].at = "failing" /\ at = "releasing" /\ raw' \in {raw, raw \ {c}}
  BY DEF WriteRawZip, Discard
<1>3. UNCHANGED <<session, hidden, doomed>>
  BY DEF WriteRawZip, Discard, owned
<1>4. PICK row : call' = [call EXCEPT ![c] = row] /\ AsksTheSame(row, call[c]) /\ row.at = at
  BY <1>1, <1>2, MovedCall DEF Goto
<1>5. call'[c] = row /\ row.op = call[c].op /\ \A x \in Calls : x # c => call'[x] = call[x]
  BY <1>1, <1>4 DEF AsksTheSame
<1>6. \A x \in Calls : x # c => (x \in raw' <=> x \in raw)
  BY <1>2
<1>7. SessionsOK'
  BY <1>2, <1>3, <1>4, <1>5 DEF SessionsOK, Over
<1>8. WritesOK'
  BY <1>2, <1>4, <1>5, <1>6 DEF WritesOK
<1>9. ScanOK'
  BY <1>2, <1>3, <1>5 DEF ScanOK, Removable, Ended
<1>10. InputIsRetained'
  BY <1>2, <1>3, <1>4, <1>5, <1>6 DEF InputIsRetained
<1>11. QED
  BY <1>7, <1>8, <1>9, <1>10

\* A commit makes the session of its call, whose input it has written, or queues one that
\* can be retried again; a replacement supersedes another.
LEMMA CommitsSession ==
    ASSUME InputInv, NEW c \in Calls, Commits(c), call[c].on \in Calls \union {None}
    PROVE  /\ session' \in [Calls -> SessionRow]
           /\ \A s \in Calls \ {c} : /\ session'[s].on = session[s].on
                                     /\ session'[s].superseded = session[s].superseded \/ session'[s].superseded
                                     /\ \/ session'[s].state = session[s].state
                                        \/ /\ session[s].state = "retryable" /\ ~session[s].superseded
                                           /\ session'[s].state = "accepted"
           /\ call[c].op # "retry_upload" =>
                session'[c].state = "accepted" /\ session'[c].on \in Calls \union {None}
           /\ call[c].op = "retry_upload" => session'[c] = session[c]
<1> USE DEF InputInv
<1>1. session \in [Calls -> SessionRow]
  BY DEF SessionsOK
<1>2. \A p : [session EXCEPT ![p].superseded = TRUE] =
        [s \in Calls |-> IF s = p THEN [session[s] EXCEPT !.superseded = TRUE] ELSE session[s]]
  BY <1>1
<1>3. \A s \in Calls : LET r == [session[s] EXCEPT !.superseded = TRUE]
                       IN  r \in SessionRow /\ r.on = session[s].on /\ r.superseded
                           /\ r.state = session[s].state
  BY <1>1 DEF SessionRow
<1>4. ASSUME NEW rows \in [Calls -> SessionRow], NEW a \in Calls \union {None},
             InsertsSession(c, a, rows)
      PROVE  /\ session' \in [Calls -> SessionRow]
             /\ \A s \in Calls \ {c} : session'[s] = rows[s]
             /\ session'[c].state = "accepted" /\ session'[c].on = a
  BY <1>4 DEF InsertsSession, SessionRow
<1>5. CASE CommitAccepted(c) \/ CommitVersionUpload(c)
  <2>1. call[c].op # "retry_upload" /\ \E a \in Calls \union {None} : InsertsSession(c, a, session)
    BY <1>5 DEF CommitAccepted, CommitVersionUpload
  <2>2. QED
    BY <1>1, <1>4, <2>1
<1>6. CASE CommitReplacement(c)
  <2>1. PICK rows : rows = [session EXCEPT ![call[c].previous].superseded = TRUE]
    OBVIOUS
  <2>2. /\ rows \in [Calls -> SessionRow]
        /\ \A s \in Calls : /\ rows[s].on = session[s].on /\ rows[s].state = session[s].state
                            /\ rows[s].superseded = session[s].superseded \/ rows[s].superseded
    BY <1>1, <1>2, <1>3, <2>1
  <2>3. call[c].op # "retry_upload" /\ InsertsSession(c, call[c].on, rows)
    BY <1>6, <2>1 DEF CommitReplacement
  <2>4. QED
    BY <1>1, <1>4, <2>2, <2>3
<1>7. CASE QueueManualRetry(c)
  <2>1. call[c].op = "retry_upload" /\ Retryable(call[c].on)
    BY <1>7 DEF QueueManualRetry, Commits, Committable
  <2>2. session' = [session EXCEPT ![call[c].on].state = "accepted"]
    BY <1>7 DEF QueueManualRetry
  <2>3. session[c].state = None
    BY <2>1 DEF SessionsOK
  <2>4. CASE call[c].on = None
    <3>1. session' = session
      BY <1>1, <2>2, <2>4, NoneAssumption
    <3>2. QED
      BY <1>1, <2>1, <3>1
  <2>5. CASE call[c].on \in Calls
    <3>1. call[c].on # c
      BY <2>1, <2>3 DEF Retryable, None
    <3>2. session' = [session EXCEPT ![call[c].on] = [session[call[c].on] EXCEPT !.state = "accepted"]]
      BY <1>1, <2>2, <2>5
    <3>3. LET r == [session[call[c].on] EXCEPT !.state = "accepted"]
          IN  r \in SessionRow /\ r.state = "accepted" /\ r.on = session[call[c].on].on
              /\ r.superseded = session[call[c].on].superseded
      BY <1>1, <2>5 DEF SessionRow
    <3>4. QED
      BY <1>1, <2>1, <2>5, <3>1, <3>2, <3>3 DEF Retryable
  <2>6. QED
    BY <2>4, <2>5
<1>8. QED
  BY <1>5, <1>6, <1>7 DEF Commits

\* The call has written the input of the session it makes.
LEMMA CommitInput ==
    ASSUME IntakeInv, InputInv, NEW c \in Calls, Commit(c) \/ CommitUnheard(c)
    PROVE  InputInv'
<1> USE DEF InputInv
<1>1. /\ call = [x \in Calls |-> call[x]] /\ IsCall(call[c])
      /\ Commits(c) /\ call[c].at = "committing" /\ UNCHANGED <<raw, doomed, hidden>>
  BY DEF IntakeInv, TypesOK, Commit, CommitUnheard, Commits, store
<1>2. PICK row : /\ call' = [call EXCEPT ![c] = row] /\ row.op = call[c].op
                 /\ row.at \in {"answered", "failing", "releasing"}
  <2>1. CASE Commit(c)
    <3> DEFINE e == Edited(call[c], "answered", Answer(c))
    <3>1. AsksTheSame(e, call[c]) /\ e.at = "answered"
      BY <1>1, EditedCall
    <3>2. call' = [call EXCEPT ![c] = e]
      BY <1>1, <2>1 DEF Commit, Edited
    <3> HIDE DEF e
    <3>3. QED
      BY <3>1, <3>2 DEF AsksTheSame
  <2>2. CASE CommitUnheard(c)
    <3>1. PICK e : e = [call[c] EXCEPT !.at = Undo(c)] /\ AsksTheSame(e, call[c]) /\ e.at = Undo(c)
      BY <1>1, MovedCall
    <3>2. call' = [call EXCEPT ![c] = e]
      BY <1>1, <2>2, <3>1 DEF CommitUnheard, Goto
    <3>3. QED
      BY <3>1, <3>2 DEF AsksTheSame, Undo
  <2>3. QED
    BY <2>1, <2>2
<1>3. call'[c] = row /\ \A x \in Calls : x # c => call'[x] = call[x]
  BY <1>1, <1>2
<1>4. call[c].on \in Calls \union {None}
  <2>1. PICK m \in record : m.by = c /\ m.state = "pending"
    BY <1>1 DEF Commits, Committable, Mine
  <2>2. m \in RecordRow /\ m.on = call[c].on
    BY <2>1 DEF IntakeInv, TypesOK, RecordsOK
  <2>3. QED
    BY <2>2 DEF RecordRow
<1>5. /\ session' \in [Calls -> SessionRow]
      /\ \A s \in Calls \ {c} : /\ session'[s].on = session[s].on
                                /\ session'[s].superseded = session[s].superseded \/ session'[s].superseded
                                /\ \/ session'[s].state = session[s].state
                                   \/ /\ session[s].state = "retryable" /\ ~session[s].superseded
                                      /\ session'[s].state = "accepted"
      /\ call[c].op # "retry_upload" =>
            session'[c].state = "accepted" /\ session'[c].on \in Calls \union {None}
      /\ call[c].op = "retry_upload" => session'[c] = session[c]
  BY <1>1, <1>4, CommitsSession
<1>6. /\ call[c].op # "retry_upload" => c \in raw
      /\ call[c].op = "retry_upload" => session[c].state = None
  BY <1>1 DEF WritesOK, SessionsOK
<1>7. SessionsOK'
  <2>1. ASSUME NEW s \in Calls, session'[s].state # None
        PROVE  call'[s].at \in Over /\ call'[s].op # "retry_upload"
    <3>1. CASE s = c
      BY <1>2, <1>3, <1>5, <1>6, <2>1, <3>1 DEF Over
    <3>2. CASE s # c
      BY <1>3, <1>5, <2>1, <3>2 DEF SessionsOK, None
    <3>3. QED
      BY <3>1, <3>2
  <2>2. QED
    BY <1>5, <2>1 DEF SessionsOK
<1>8. WritesOK'
  BY <1>1, <1>2, <1>3 DEF WritesOK
<1>9. ScanOK'
  <2>1. ASSUME NEW o \in doomed PROVE o # c /\ o \in Calls /\ call[o].at \in Ended /\ Removable(o)
    BY <1>1, <2>1 DEF ScanOK, Ended
  <2>2. \A o \in doomed : Removable(o)'
    BY <1>5, <2>1 DEF Removable, None
  <2>3. QED
    BY <1>1, <1>3, <2>1, <2>2 DEF ScanOK
<1>10. InputIsRetained'
  <2>1. ASSUME NEW s \in Calls, session'[s].state \in {"accepted", "retryable"},
               ~session'[s].superseded, s \notin raw'
        PROVE  call'[s].at \in {"releasing", "refused", "crashed"} \/ session'[s].on \in hidden'
    <3>1. s # c
      BY <1>1, <1>5, <1>6, <2>1 DEF None
    <3>2. QED
      BY <1>1, <1>3, <1>5, <2>1, <3>1 DEF InputIsRetained
  <2>2. QED
    BY <2>1 DEF InputIsRetained
<1>11. QED
  BY <1>7, <1>8, <1>9, <1>10

\* Processing, a listing, a deletion and the scan.
LEMMA EndInput ==
    ASSUME InputInv, NEW s \in Calls,
           Process(s) \/ ShareToGallery(s) \/ Delete(s) \/ ScanDeletes(s) \/ ScanFinds
    PROVE  InputInv'
<1>1. /\ session \in [Calls -> SessionRow] /\ doomed \subseteq Calls /\ UNCHANGED call
      /\ \A o \in doomed : call[o].at \in Ended /\ Removable(o)
  BY DEF InputInv, SessionsOK, ScanOK, Process, ShareToGallery, Delete, ScanDeletes, ScanFinds
<1>2. CASE Process(s)
  <2>1. PICK outcome \in {"failed", "retryable", "committed"} :
          session' = [session EXCEPT ![s].state = outcome]
    BY <1>2 DEF Process
  <2>2. /\ session[s].state = "accepted" /\ UNCHANGED <<raw, doomed, hidden>>
    BY <1>2 DEF Process, owned, store
  <2> DEFINE row == [session[s] EXCEPT !.state = outcome]
  <2>3. row \in SessionRow /\ row.on = session[s].on /\ row.superseded = session[s].superseded
        /\ row.state = outcome
    BY <1>1 DEF SessionRow
  <2>4. session' = [session EXCEPT ![s] = row]
    BY <1>1, <2>1
  <2> HIDE DEF row
  <2>5. /\ session' \in [Calls -> SessionRow] /\ session'[s] = row
        /\ \A x \in Calls : x # s => session'[x] = session[x]
    BY <1>1, <2>3, <2>4
  <2>6. \A o \in doomed : Removable(o)'
    BY <1>1, <2>2, <2>3, <2>5 DEF Removable, None
  <2>7. QED
    BY <1>1, <2>2, <2>3, <2>5, <2>6, SessionsEnd DEF None
<1>3. CASE ShareToGallery(s)
  <2>1. UNCHANGED <<session, raw, doomed, hidden>>
    BY <1>3 DEF ShareToGallery, store
  <2>2. \A o \in doomed : Removable(o)'
    BY <1>1, <2>1 DEF Removable
  <2>3. QED
    BY <1>1, <2>1, <2>2, SessionsEnd
<1>4. CASE Delete(s)
  <2>1. /\ raw' = raw \ SessionsOf(s) /\ UNCHANGED doomed
        /\ \/ session' = session /\ hidden' = hidden \union {s}
           \/ /\ session' = [x \in Calls |-> IF x \in SessionsOf(s) THEN NoSession ELSE session[x]]
              /\ hidden' = hidden
    BY <1>4 DEF Delete
  <2>2. NoSession \in SessionRow /\ NoSession.state = None /\ NoSession.on = None
        /\ ~NoSession.superseded
    BY DEF NoSession, SessionRow
  <2>3. /\ session' \in [Calls -> SessionRow]
        /\ \A x \in Calls : session'[x] = session[x] \/ session'[x] = NoSession
        /\ \A x \in Calls : session'[x] = NoSession \/ session'[x].on \in hidden' \/ x \notin SessionsOf(s)
    BY <1>1, <2>1, <2>2 DEF SessionsOf
  <2>4. \A o \in doomed : Removable(o)'
    BY <1>1, <2>2, <2>3 DEF Removable
  <2>5. \A c \in Calls : c \in raw /\ c \notin raw' =>
              session[c].state # None /\ (session'[c].on \in hidden' \/ session'[c].state = None)
    BY <2>1, <2>2, <2>3 DEF SessionsOf
  <2>6. /\ raw' \subseteq raw /\ doomed' \subseteq Calls /\ hidden \subseteq hidden'
        /\ \A o \in doomed' : call[o].at \in Ended /\ Removable(o)'
    BY <1>1, <2>1, <2>4
  <2>7. \A x \in Calls : session'[x].state # None => session[x].state # None
    BY <2>2, <2>3
  <2>8. \A x \in Calls : session'[x].state \in {"accepted", "retryable"} /\ ~session'[x].superseded =>
              /\ session[x].state \in {"accepted", "retryable"} /\ ~session[x].superseded
              /\ session'[x].on = session[x].on
    BY <2>2, <2>3 DEF None
  <2>9. QED
    BY <1>1, <2>3, <2>5, <2>6, <2>7, <2>8, SessionsEnd
<1>5. CASE ScanDeletes(s)
  <2>1. /\ s \in doomed /\ raw' = raw \ {s} /\ doomed' = doomed \ {s}
        /\ UNCHANGED <<session, hidden>>
    BY <1>5 DEF ScanDeletes, owned
  <2>2. \A o \in doomed : Removable(o)'
    BY <1>1, <2>1 DEF Removable
  <2>3. QED
    BY <1>1, <2>1, <2>2, SessionsEnd
<1>6. CASE ScanFinds
  <2>1. doomed' = {o \in raw : ~InFlight(o) /\ Removable(o)} /\ UNCHANGED <<session, raw, hidden>>
    BY <1>6 DEF ScanFinds, owned
  <2>2. raw \subseteq Calls /\ \A o \in raw : call[o].at # "new"
    BY DEF InputInv, WritesOK
  <2>3. \A o \in doomed' : o \in Calls /\ call[o].at \in Ended /\ Removable(o)'
    BY <1>1, <2>1, <2>2 DEF InFlight, Ended, Removable
  <2>4. QED
    BY <1>1, <2>1, <2>3, SessionsEnd
<1>7. QED
  BY <1>2, <1>3, <1>4, <1>5, <1>6
-----------------------------------------------------------------------------
\* The inductive invariant of retained input: a session is made by a call that has written
\* its input, and the scan only holds objects of sessions that need them no more.
THEOREM InputInvariance == Spec => [](IntakeInv /\ InputInv)
<1>1. IntakeInv /\ InputInv /\ [Next]_vars => InputInv'
  <2> SUFFICES ASSUME IntakeInv, InputInv, [Next]_vars PROVE InputInv'
    OBVIOUS
  <2>1. CASE UNCHANGED vars
    BY <2>1 DEF vars, owned, store, InputInv, SessionsOK, WritesOK, ScanOK, Removable, InputIsRetained
  <2>2. ASSUME NEW c \in Calls, Begin(c) \/ Step(c) \/ Crash(c) PROVE InputInv'
    BY <2>2, CallInput, WriteInput, CommitInput DEF Step
  <2>3. ASSUME NEW s \in Calls, Process(s) \/ ShareToGallery(s) \/ Delete(s) \/ ScanDeletes(s)
        PROVE  InputInv'
    BY <2>3, EndInput
  <2>4. ASSUME NEW c \in Calls, ScanFinds PROVE InputInv'
    BY <2>4, EndInput
  <2>5. ASSUME Calls = {}, ScanFinds PROVE InputInv'
    BY <2>5 DEF ScanFinds, owned, InputInv, SessionsOK, WritesOK, ScanOK, InputIsRetained
  <2>6. QED
    BY <2>1, <2>2, <2>3, <2>4, <2>5 DEF Next
<1>2. QED
  BY <1>1, InitInput, IntakeInvariance, PTL DEF Spec

\* The input of a session that is to be processed or retried is in storage, unless its own
\* call was told of a failure and discarded it; the scan and other calls never take it.
THEOREM InputsAreRetained == Spec => []InputIsRetained
<1>1. InputInv => InputIsRetained
  BY DEF InputInv
<1>2. QED
  BY <1>1, InputInvariance, PTL
=============================================================================
