---------------------------- MODULE SdkCallsProofs ----------------------------
(***************************************************************************)
(* What callers of the SDKs are told is true, and told, for any number of  *)
(* calls: a call has told its caller nothing until it is over, and what a  *)
(* success needs is settled by the answer that ends it.  What a release    *)
(* sends is what it was called with because an object that others write    *)
(* meanwhile marks the releases that wait.                                 *)
(***************************************************************************)
EXTENDS SdkCalls, TLAPS

Moves(c) == (\E r \in Request : Call(c, r)) \/ Step(c) \/ Break(c) \/ Serve(c)

\* What a call knows of itself.
CallInv(c) ==
    /\ at[c] = "new" <=> req[c] = None
    /\ at[c] # "over" => told[c] = << >>
    /\ at[c] \in {"new", "file", "zipping"} => Unsent(c)
    /\ Len(told[c]) <= 1
    /\ told[c] = <<"value">> => c \in served
    /\ c \in zips => told[c] = << >>
    /\ told[c] = <<"no">> => Kind(c) = "auth" /\ ~req[c].throwIfUnauthorized
    /\ at[c] = "over" /\ told[c] = << >> =>
          \/ Kind(c) = "release" /\ req[c].directory /\ Unsent(c)
          \/ Kind(c) = "deploy" /\ req[c].status = "unknown" /\ req[c].callback # "own"
          \/ Unheard(c)

\* What it sends is what was meant.
MetaInv(c) ==
    /\ at[c] \in {"file", "zipping"} /\ c \notin mixed => object[req[c].meta] = meant[c]
    /\ Kind(c) \in {"release", "patch"} /\ at[c] \in {"sent", "cut"} /\ c \notin mixed =>
          payload[c] = meant[c]

Inv == TypeOK /\ \A c \in Calls : CallInv(c) /\ MetaInv(c)

-----------------------------------------------------------------------------
\* The kinds, and which request is of which.
RequestShape(r) ==
    /\ r.kind \in {"auth", "api", "release", "patch", "query", "download", "deploy"}
    /\ r.kind = "release" <=> r \in Release
    /\ r.kind = "release" => r.meta \in Metadata /\ r.version \in Versions
    /\ r.kind = "patch" => r.meta \in Metadata

LEMMA RequestShapes ==
    ASSUME NEW r \in Request PROVE RequestShape(r) /\ r # None
<1>1. r # None
  BY SdkAssumption
<1>2. ASSUME r \in Auth PROVE RequestShape(r)
  BY <1>2 DEF Auth, Release, RequestShape
<1>3. ASSUME r \in Api PROVE RequestShape(r)
  BY <1>3 DEF Api, Release, RequestShape
<1>4. ASSUME r \in Release PROVE RequestShape(r)
  BY <1>4 DEF Release, RequestShape
<1>5. ASSUME r \in Patch PROVE RequestShape(r)
  BY <1>5 DEF Patch, Release, RequestShape
<1>6. ASSUME r \in Report PROVE RequestShape(r)
  BY <1>6 DEF Report, Release, RequestShape
<1>7. QED
  BY <1>1, <1>2, <1>3, <1>4, <1>5, <1>6 DEF Request

\* What may be told.
Telling == {"value", "no", "error"}

LEMMA ToldTyped ==
    ASSUME TypeOK, NEW c \in Calls,
           Silent \/ \E what \in Telling : Hear(c, what)
    PROVE  told' \in [Calls -> Seq(Telling)]
<1>1. told \in [Calls -> Seq(Telling)]
  BY DEF TypeOK, Telling
<1>2. \A what \in Telling : Append(told[c], what) \in Seq(Telling)
  BY <1>1
<1>3. CASE Silent
  BY <1>1, <1>3 DEF Silent
<1>4. ASSUME NEW what \in Telling, Hear(c, what)
      PROVE  told' \in [Calls -> Seq(Telling)]
  <2>1. told' = [told EXCEPT ![c] = Append(told[c], what)]
    BY <1>4 DEF Hear
  <2>2. QED
    BY <1>1, <1>2, <2>1
<1>5. QED
  BY <1>3, <1>4

(* Whoever had heard nothing has then heard one thing.                      *)
LEMMA Heard ==
    ASSUME TypeOK, NEW c \in Calls, told[c] = << >>, NEW what, Hear(c, what)
    PROVE  /\ told'[c] = <<what>> /\ told'[c] # << >> /\ Len(told'[c]) = 1
           /\ \A other : told'[c] = <<other>> => other = what
<1>1. told'[c] = Append(told[c], what)
  BY DEF TypeOK, Hear
<1>2. told'[c] = <<what>>
  BY <1>1
<1>3. QED
  BY <1>2

\* TypeOK, but for what was told.
RestTyped ==
    /\ object \in [Metadata -> Content]
    /\ req \in [Calls -> Request \cup {None}]
    /\ at \in [Calls -> {"new", "file", "zipping", "sent", "cut", "over"}]
    /\ \A d \in Calls : at[d] \in {"file", "zipping"} => req[d] \in Release
    /\ meant \in [Calls -> Content]
    /\ payload \in [Calls -> Content]
    /\ mixed \subseteq Calls
    /\ zips \subseteq {d \in Calls : Kind(d) = "release" /\ req[d].directory}
    /\ served \subseteq Calls
    /\ crashed \in BOOLEAN

(* Every variable keeps its type.                                           *)
LEMMA TypeStep ==
    ASSUME Inv, NEW c \in Calls, Moves(c) PROVE TypeOK'
<1>a. \A d \in Calls : req[d] = None \/ (req[d] \in Request /\ RequestShape(req[d]) /\ req[d] # None)
  BY RequestShapes DEF Inv, TypeOK
<1>b. at[c] = "new" <=> req[c] = None
  BY DEF Inv, CallInv
<1>c. \A r \in Request : RequestShape(r) /\ r # None
  BY RequestShapes
<1>d. Blank \in Content
  BY DEF Blank, Content
<1>e. \A x \in Content, v \in Versions :
         [x EXCEPT !.version = v] \in Content /\ [x EXCEPT !.label = TRUE] \in Content
  BY DEF Content
<1> USE <1>a, <1>b, <1>c DEF Inv, TypeOK, Kind, RequestShape
<1>1. ASSUME NEW r \in Request, Ask(c, r)
      PROVE  TypeOK'
  BY <1>1 DEF Ask, Make, IsAt, Goto, Silent, Unwritten
<1>2. ASSUME NEW r \in Request, PatchRelease(c, r)
      PROVE  TypeOK'
  <2>1. r.meta \in Metadata /\ object[r.meta] \in Content
    BY <1>2 DEF PatchRelease
  <2> DEFINE labelled == [object[r.meta] EXCEPT !.label = TRUE]
  <2>2. labelled \in Content
    BY <2>1 DEF Content
  <2>3. object' = [object EXCEPT ![r.meta] = labelled] /\ meant' = [meant EXCEPT ![c] = labelled]
    BY <1>2 DEF PatchRelease, Write
  <2> HIDE DEF labelled
  <2>4. object' \in [Metadata -> Content] /\ meant' \in [Calls -> Content]
    BY <2>2, <2>3
  <2>5. payload' \in [Calls -> Content]
    BY <1>2, <2>1, <2>4 DEF PatchRelease
  <2>6. QED
    BY <1>2, <2>4, <2>5 DEF PatchRelease, Make, Write, IsAt, Goto, Silent
<1>3. ASSUME NEW r \in Request, ReportDeploy(c, r)
      PROVE  TypeOK'
  <2>1. Silent \/ \E what \in Telling : Hear(c, what)
    BY <1>3 DEF ReportDeploy, Telling, Make, IsAt, Goto, Unwritten, Silent
  <2>2. told' \in [Calls -> Seq(Telling)]
    BY <2>1, ToldTyped
  <2>3. RestTyped'
    BY <1>3 DEF ReportDeploy, Make, IsAt, Goto, Unwritten, RestTyped
  <2>4. QED
    BY <2>2, <2>3 DEF RestTyped, Telling
<1>4. ASSUME NEW r \in Request, StartRelease(c, r)
      PROVE  TypeOK'
  <2>1. Silent \/ \E what \in Telling : Hear(c, what)
    BY <1>4 DEF StartRelease, Telling, Make, Write, IsAt, Goto, Silent
  <2>2. told' \in [Calls -> Seq(Telling)]
    BY <2>1, ToldTyped
  <2>3. RestTyped'
    BY <1>4, <1>e DEF StartRelease, Make, Write, IsAt, Goto, RestTyped
  <2>4. QED
    BY <2>2, <2>3 DEF RestTyped, Telling
<1>5. ASSUME OpenFile(c)
      PROVE  TypeOK'
  BY <1>5 DEF OpenFile, Upload, IsAt, Goto, Silent, Unwritten
<1>6. ASSUME ListDirectory(c)
      PROVE  TypeOK'
  BY <1>6 DEF ListDirectory, IsAt, Goto, Silent, Unwritten
<1>7. ASSUME ZipDirectory(c)
      PROVE  TypeOK'
  BY <1>7 DEF ZipDirectory, Upload, IsAt, Goto, Silent, Unwritten
<1>8. ASSUME PackageFails(c)
      PROVE  TypeOK'
  BY <1>8 DEF PackageFails, IsAt, Goto, Silent, Unwritten
<1>9. ASSUME FileVanishes(c)
      PROVE  TypeOK'
  BY <1>9 DEF FileVanishes, IsAt, Crash, Unwritten
<1>10. ASSUME Break(c)
      PROVE  TypeOK'
  BY <1>10 DEF Break, IsAt, Goto, Silent, Unwritten
<1>11. ASSUME Serve(c)
      PROVE  TypeOK'
  BY <1>11 DEF Serve, Waits, Silent, Unwritten
<1>12. ASSUME NEW a \in Answers(c), AuthAnswered(c, a)
      PROVE  TypeOK'
  <2>1. Silent \/ \E what \in Telling : Hear(c, what)
    BY <1>12 DEF AuthAnswered, Telling, Answered, Waits, Goto, Crash, Unwritten, Answers, Silent
  <2>2. told' \in [Calls -> Seq(Telling)]
    BY <2>1, ToldTyped
  <2>3. \/ crashed' = TRUE /\ at' = at
        \/ at' = [at EXCEPT ![c] = "over"] /\ crashed' = crashed
    BY <1>12 DEF AuthAnswered, Goto, Crash
  <2>4. UNCHANGED <<object, req, meant, payload, mixed, served>> /\ zips' \subseteq zips
    BY <1>12 DEF AuthAnswered, Answered, Unwritten
  <2>5. RestTyped'
    BY <2>3, <2>4 DEF RestTyped
  <2>6. QED
    BY <2>2, <2>5 DEF RestTyped, Telling
<1>13. ASSUME NEW a \in Answers(c), ApiAnswered(c, a)
      PROVE  TypeOK'
  <2>1. Silent \/ \E what \in Telling : Hear(c, what)
    BY <1>13 DEF ApiAnswered, Telling, Answered, Waits, Goto, Unwritten, Answers, Succeeded, Success, Silent
  <2>2. told' \in [Calls -> Seq(Telling)]
    BY <2>1, ToldTyped
  <2>3. RestTyped'
    BY <1>13 DEF ApiAnswered, Answered, Waits, Goto, Unwritten, Answers, Succeeded, Success, RestTyped
  <2>4. QED
    BY <2>2, <2>3 DEF RestTyped, Telling
<1>14. ASSUME NEW a \in Answers(c), ReleaseAnswered(c, a)
      PROVE  TypeOK'
  <2>1. Silent \/ \E what \in Telling : Hear(c, what)
    BY <1>14 DEF ReleaseAnswered, Telling, Answered, Waits, Goto, Crash, Unwritten, Answers, Success, Silent
  <2>2. told' \in [Calls -> Seq(Telling)]
    BY <2>1, ToldTyped
  <2>3. \/ crashed' = TRUE /\ at' = at
        \/ at' = [at EXCEPT ![c] = "over"] /\ crashed' = crashed
    BY <1>14 DEF ReleaseAnswered, Goto, Crash
  <2>4. UNCHANGED <<object, req, meant, payload, mixed, served>> /\ zips' \subseteq zips
    BY <1>14 DEF ReleaseAnswered, Answered, Unwritten
  <2>5. RestTyped'
    BY <2>3, <2>4 DEF RestTyped
  <2>6. QED
    BY <2>2, <2>5 DEF RestTyped, Telling
<1>15. ASSUME NEW a \in Answers(c), QueryAnswered(c, a)
      PROVE  TypeOK'
  <2>1. Silent \/ \E what \in Telling : Hear(c, what)
    BY <1>15 DEF QueryAnswered, Telling, Answered, Waits, Goto, Crash, Unwritten, Answers, Silent
  <2>2. told' \in [Calls -> Seq(Telling)]
    BY <2>1, ToldTyped
  <2>3. \/ crashed' = TRUE /\ at' = at
        \/ at' = [at EXCEPT ![c] = "over"] /\ crashed' = crashed
    BY <1>15 DEF QueryAnswered, Goto, Crash
  <2>4. UNCHANGED <<object, req, meant, payload, mixed, served>> /\ zips' \subseteq zips
    BY <1>15 DEF QueryAnswered, Answered, Unwritten
  <2>5. RestTyped'
    BY <2>3, <2>4 DEF RestTyped
  <2>6. QED
    BY <2>2, <2>5 DEF RestTyped, Telling
<1>16. ASSUME NEW a \in Answers(c), ReportAnswered(c, a)
      PROVE  TypeOK'
  <2>1. Silent \/ \E what \in Telling : Hear(c, what)
    BY <1>16 DEF ReportAnswered, Telling, Answered, Waits, Goto, Unwritten, Answers, Silent
  <2>2. told' \in [Calls -> Seq(Telling)]
    BY <2>1, ToldTyped
  <2>3. RestTyped'
    BY <1>16 DEF ReportAnswered, Answered, Waits, Goto, Unwritten, Answers, RestTyped
  <2>4. QED
    BY <2>2, <2>3 DEF RestTyped, Telling
<1>17. QED
  BY <1>1, <1>2, <1>3, <1>4, <1>5, <1>6, <1>7, <1>8, <1>9, <1>10, <1>11, <1>12, <1>13, <1>14, <1>15, <1>16 DEF Moves, Call, Step, Settle

\* d finds itself as it was, but for an object that c has written.
Bystander(c, d) ==
    /\ req'[d] = req[d] /\ at'[d] = at[d] /\ told'[d] = told[d]
    /\ meant'[d] = meant[d] /\ payload'[d] = payload[d]
    /\ d \in zips' <=> d \in zips
    /\ d \in served' <=> d \in served
    /\ d \in mixed => d \in mixed'
    /\ \/ d \in mixed'
       \/ at[d] \notin {"file", "zipping"}
       \/ object'[req[d].meta] = object[req[d].meta]

LEMMA BystanderStep ==
    ASSUME Inv, NEW c \in Calls, Moves(c), NEW d \in Calls \ {c}
    PROVE  Bystander(c, d)
<1>a. \A r \in Request : RequestShape(r) /\ r # None
  BY RequestShapes
<1> USE <1>a DEF Inv, TypeOK, Bystander, RequestShape
<1>1. ASSUME NEW r \in Request, Ask(c, r)
      PROVE  Bystander(c, d)
  BY <1>1 DEF Ask, Make, IsAt, Goto, Silent, Unwritten
<1>2. ASSUME NEW r \in Request, PatchRelease(c, r)
      PROVE  Bystander(c, d)
  BY <1>2 DEF PatchRelease, Make, Write, IsAt, Goto, Silent
<1>3. ASSUME NEW r \in Request, ReportDeploy(c, r)
      PROVE  Bystander(c, d)
  BY <1>3 DEF ReportDeploy, Make, IsAt, Goto, Silent, Hear, Unwritten
<1>4. ASSUME NEW r \in Request, StartRelease(c, r)
      PROVE  Bystander(c, d)
  BY <1>4 DEF StartRelease, Make, Write, IsAt, Goto, Silent, Hear
<1>5. ASSUME OpenFile(c)
      PROVE  Bystander(c, d)
  BY <1>5 DEF OpenFile, Upload, IsAt, Goto, Silent, Unwritten
<1>6. ASSUME ListDirectory(c)
      PROVE  Bystander(c, d)
  BY <1>6 DEF ListDirectory, IsAt, Goto, Silent, Unwritten
<1>7. ASSUME ZipDirectory(c)
      PROVE  Bystander(c, d)
  BY <1>7 DEF ZipDirectory, Upload, IsAt, Goto, Silent, Unwritten
<1>8. ASSUME PackageFails(c)
      PROVE  Bystander(c, d)
  BY <1>8 DEF PackageFails, IsAt, Goto, Silent, Unwritten
<1>9. ASSUME FileVanishes(c)
      PROVE  Bystander(c, d)
  BY <1>9 DEF FileVanishes, IsAt, Crash, Unwritten
<1>10. ASSUME Break(c)
      PROVE  Bystander(c, d)
  BY <1>10 DEF Break, IsAt, Goto, Silent, Unwritten
<1>11. ASSUME Serve(c)
      PROVE  Bystander(c, d)
  BY <1>11 DEF Serve, Waits, Silent, Unwritten
<1>12. ASSUME NEW a \in Answers(c), AuthAnswered(c, a)
      PROVE  Bystander(c, d)
  BY <1>12 DEF AuthAnswered, Answered, Waits, Goto, Hear, Crash, Unwritten, Answers
<1>13. ASSUME NEW a \in Answers(c), ApiAnswered(c, a)
      PROVE  Bystander(c, d)
  BY <1>13 DEF ApiAnswered, Answered, Waits, Goto, Hear, Unwritten, Answers, Succeeded, Success
<1>14. ASSUME NEW a \in Answers(c), ReleaseAnswered(c, a)
      PROVE  Bystander(c, d)
  BY <1>14 DEF ReleaseAnswered, Answered, Waits, Goto, Hear, Crash, Unwritten, Answers, Success
<1>15. ASSUME NEW a \in Answers(c), QueryAnswered(c, a)
      PROVE  Bystander(c, d)
  BY <1>15 DEF QueryAnswered, Answered, Waits, Goto, Hear, Crash, Unwritten, Answers
<1>16. ASSUME NEW a \in Answers(c), ReportAnswered(c, a)
      PROVE  Bystander(c, d)
  BY <1>16 DEF ReportAnswered, Answered, Waits, Goto, Hear, Silent, Unwritten, Answers
<1>17. QED
  BY <1>1, <1>2, <1>3, <1>4, <1>5, <1>6, <1>7, <1>8, <1>9, <1>10, <1>11, <1>12, <1>13, <1>14, <1>15, <1>16 DEF Moves, Call, Step, Settle

LEMMA LookingOn ==
    ASSUME Inv, NEW c \in Calls, NEW d \in Calls \ {c}, Bystander(c, d)
    PROVE  CallInv(d)' /\ MetaInv(d)'
<1>1. CallInv(d)'
  BY DEF Inv, CallInv, Bystander, Kind, Unheard, Unsent
<1>2. MetaInv(d)'
  BY DEF Inv, MetaInv, Bystander, Kind
<1>3. QED
  BY <1>1, <1>2

-----------------------------------------------------------------------------
(* The call that moves: what it has told.                                   *)
LEMMA CallStep ==
    ASSUME Inv, NEW c \in Calls, Moves(c) PROVE CallInv(c)'
<1>a. \A r \in Request : RequestShape(r) /\ r # None
  BY RequestShapes
<1>b. CallInv(c) /\ TypeOK
  BY DEF Inv
<1> USE <1>a, <1>b DEF TypeOK, CallInv, Kind, Unheard, Unsent, RequestShape
<1>1. ASSUME NEW r \in Request, Ask(c, r)
      PROVE  CallInv(c)'
  BY <1>1 DEF Ask, Make, IsAt, Goto, Silent, Unwritten
<1>2. ASSUME NEW r \in Request, PatchRelease(c, r)
      PROVE  CallInv(c)'
  <2>1. req'[c] = r /\ at'[c] = "sent" /\ told' = told /\ served' = served /\ zips' = zips
    BY <1>2 DEF PatchRelease, Make, IsAt, Goto, Silent
  <2>2. at[c] = "new"
    BY <1>2 DEF PatchRelease, Make, IsAt
  <2>3. QED
    BY <2>1, <2>2
<1>3. ASSUME NEW r \in Request, ReportDeploy(c, r)
      PROVE  CallInv(c)'
  <2>1. /\ req'[c] = r /\ r.kind = "deploy" /\ at'[c] \in {"over", "sent"}
        /\ served' = served /\ zips' = zips /\ told[c] = << >>
    BY <1>3 DEF ReportDeploy, Make, IsAt, Goto
  <2>2. CASE r.status = "unknown" /\ r.callback = "own"
    <3>1. told'[c] = <<"error">> /\ Len(told'[c]) = 1 /\ told'[c] # << >>
          /\ told'[c] # <<"value">> /\ told'[c] # <<"no">>
      BY <1>3, <2>1, <2>2, Heard DEF ReportDeploy
    <3>2. at'[c] = "over" /\ c \notin zips
      BY <1>3, <2>2 DEF ReportDeploy, Make, IsAt, Goto
    <3>3. QED
      BY <2>1, <3>1, <3>2
  <2>3. CASE ~(r.status = "unknown" /\ r.callback = "own")
    <3>1. told' = told /\ (at'[c] = "over" => r.status = "unknown")
      BY <1>3, <2>3 DEF ReportDeploy, Goto, Silent
    <3>2. QED
      BY <2>1, <2>3, <3>1
  <2>4. QED
    BY <2>2, <2>3
<1>4. ASSUME NEW r \in Request, StartRelease(c, r)
      PROVE  CallInv(c)'
  <2>1. /\ req'[c] = r /\ served' = served /\ zips' = zips
        /\ told[c] = << >> /\ c \notin zips /\ payload' = payload /\ payload[c] = Blank
    BY <1>4 DEF StartRelease, Make, IsAt
  <2>2. CASE Goto(c, "file") /\ Silent
    BY <2>1, <2>2 DEF Goto, Silent
  <2>3. CASE Goto(c, "over") /\ Hear(c, "error")
    <3>1. told'[c] = <<"error">> /\ Len(told'[c]) = 1 /\ told'[c] # << >>
          /\ told'[c] # <<"value">> /\ told'[c] # <<"no">>
      BY <2>1, <2>3, Heard
    <3>2. at'[c] = "over"
      BY <2>3 DEF Goto
    <3>3. QED
      BY <2>1, <3>1, <3>2
  <2>4. QED
    BY <1>4, <2>2, <2>3 DEF StartRelease
<1>5. ASSUME OpenFile(c)
      PROVE  CallInv(c)'
  BY <1>5 DEF OpenFile, Upload, IsAt, Goto, Silent, Unwritten
<1>6. ASSUME ListDirectory(c)
      PROVE  CallInv(c)'
  BY <1>6 DEF ListDirectory, IsAt, Goto, Silent, Unwritten
<1>7. ASSUME ZipDirectory(c)
      PROVE  CallInv(c)'
  BY <1>7 DEF ZipDirectory, Upload, IsAt, Goto, Silent, Unwritten
<1>8. ASSUME PackageFails(c)
      PROVE  CallInv(c)'
  BY <1>8 DEF PackageFails, IsAt, Goto, Silent, Unwritten
<1>9. ASSUME FileVanishes(c)
      PROVE  CallInv(c)'
  BY <1>9 DEF FileVanishes, IsAt, Crash, Unwritten
<1>10. ASSUME Break(c)
      PROVE  CallInv(c)'
  BY <1>10 DEF Break, IsAt, Goto, Silent, Unwritten
<1>11. ASSUME Serve(c)
      PROVE  CallInv(c)'
  BY <1>11 DEF Serve, Waits, Silent, Unwritten
<1>12. ASSUME NEW a \in Answers(c), AuthAnswered(c, a)
      PROVE  CallInv(c)'
  BY <1>12 DEF AuthAnswered, Answered, Waits, Goto, Hear, Crash, Unwritten, Answers
<1>13. ASSUME NEW a \in Answers(c), ApiAnswered(c, a)
      PROVE  CallInv(c)'
  <2>1. PICK what \in {"value", "error"} :
           Hear(c, what) /\ (what = "value" => Succeeded(c, a))
    BY <1>13 DEF ApiAnswered
  <2>2. /\ at[c] \in {"sent", "cut"} /\ at'[c] = "over" /\ told[c] = << >> /\ c \notin zips
        /\ req' = req /\ served' = served /\ zips' = zips
    BY <1>13 DEF ApiAnswered, Answered, Waits, Goto
  <2>3. what = "value" => c \in served
    BY <2>1 DEF Succeeded, Success, Answers
  <2>4. /\ told'[c] = <<what>> /\ Len(told'[c]) = 1 /\ told'[c] # << >>
        /\ (told'[c] = <<"value">> => what = "value")
        /\ told'[c] # <<"no">>
    BY <2>1, <2>2, Heard
  <2>5. QED
    BY <2>2, <2>3, <2>4
<1>14. ASSUME NEW a \in Answers(c), ReleaseAnswered(c, a)
      PROVE  CallInv(c)'
  BY <1>14 DEF ReleaseAnswered, Answered, Waits, Goto, Hear, Crash, Unwritten, Answers, Success
<1>15. ASSUME NEW a \in Answers(c), QueryAnswered(c, a)
      PROVE  CallInv(c)'
  BY <1>15 DEF QueryAnswered, Answered, Waits, Goto, Hear, Crash, Unwritten, Answers
<1>16. ASSUME NEW a \in Answers(c), ReportAnswered(c, a)
      PROVE  CallInv(c)'
  BY <1>16 DEF ReportAnswered, Answered, Waits, Goto, Hear, Silent, Unwritten, Answers
<1>17. QED
  BY <1>1, <1>2, <1>3, <1>4, <1>5, <1>6, <1>7, <1>8, <1>9, <1>10, <1>11, <1>12, <1>13, <1>14, <1>15, <1>16 DEF Moves, Call, Step, Settle

(* ... and what it sends.                                                   *)
LEMMA MetaStep ==
    ASSUME Inv, NEW c \in Calls, Moves(c) PROVE MetaInv(c)'
<1>a. \A r \in Request : RequestShape(r) /\ r # None
  BY RequestShapes
<1>b. CallInv(c) /\ MetaInv(c) /\ TypeOK
  BY DEF Inv
<1> USE <1>a, <1>b DEF TypeOK, CallInv, MetaInv, Kind, RequestShape
<1>1. ASSUME NEW r \in Request, Ask(c, r)
      PROVE  MetaInv(c)'
  BY <1>1 DEF Ask, Make, IsAt, Goto, Silent, Unwritten
<1>2. ASSUME NEW r \in Request, PatchRelease(c, r)
      PROVE  MetaInv(c)'
  BY <1>2 DEF PatchRelease, Make, Write, IsAt, Goto, Silent
<1>3. ASSUME NEW r \in Request, ReportDeploy(c, r)
      PROVE  MetaInv(c)'
  BY <1>3 DEF ReportDeploy, Make, IsAt, Goto, Silent, Hear, Unwritten
<1>4. ASSUME NEW r \in Request, StartRelease(c, r)
      PROVE  MetaInv(c)'
  BY <1>4 DEF StartRelease, Make, Write, IsAt, Goto, Silent, Hear
<1>5. ASSUME OpenFile(c)
      PROVE  MetaInv(c)'
  BY <1>5 DEF OpenFile, Upload, IsAt, Goto, Silent, Unwritten
<1>6. ASSUME ListDirectory(c)
      PROVE  MetaInv(c)'
  BY <1>6 DEF ListDirectory, IsAt, Goto, Silent, Unwritten
<1>7. ASSUME ZipDirectory(c)
      PROVE  MetaInv(c)'
  BY <1>7 DEF ZipDirectory, Upload, IsAt, Goto, Silent, Unwritten
<1>8. ASSUME PackageFails(c)
      PROVE  MetaInv(c)'
  BY <1>8 DEF PackageFails, IsAt, Goto, Silent, Unwritten
<1>9. ASSUME FileVanishes(c)
      PROVE  MetaInv(c)'
  BY <1>9 DEF FileVanishes, IsAt, Crash, Unwritten
<1>10. ASSUME Break(c)
      PROVE  MetaInv(c)'
  BY <1>10 DEF Break, IsAt, Goto, Silent, Unwritten
<1>11. ASSUME Serve(c)
      PROVE  MetaInv(c)'
  BY <1>11 DEF Serve, Waits, Silent, Unwritten
<1>12. ASSUME NEW a \in Answers(c), AuthAnswered(c, a)
      PROVE  MetaInv(c)'
  BY <1>12 DEF AuthAnswered, Answered, Waits, Goto, Hear, Crash, Unwritten, Answers
<1>13. ASSUME NEW a \in Answers(c), ApiAnswered(c, a)
      PROVE  MetaInv(c)'
  BY <1>13 DEF ApiAnswered, Answered, Waits, Goto, Hear, Unwritten, Answers, Succeeded, Success
<1>14. ASSUME NEW a \in Answers(c), ReleaseAnswered(c, a)
      PROVE  MetaInv(c)'
  BY <1>14 DEF ReleaseAnswered, Answered, Waits, Goto, Hear, Crash, Unwritten, Answers, Success
<1>15. ASSUME NEW a \in Answers(c), QueryAnswered(c, a)
      PROVE  MetaInv(c)'
  BY <1>15 DEF QueryAnswered, Answered, Waits, Goto, Hear, Crash, Unwritten, Answers
<1>16. ASSUME NEW a \in Answers(c), ReportAnswered(c, a)
      PROVE  MetaInv(c)'
  BY <1>16 DEF ReportAnswered, Answered, Waits, Goto, Hear, Silent, Unwritten, Answers
<1>17. QED
  BY <1>1, <1>2, <1>3, <1>4, <1>5, <1>6, <1>7, <1>8, <1>9, <1>10, <1>11, <1>12, <1>13, <1>14, <1>15, <1>16 DEF Moves, Call, Step, Settle

-----------------------------------------------------------------------------
LEMMA InitInv == Init => Inv
<1> SUFFICES ASSUME Init PROVE Inv
  OBVIOUS
<1>1. Blank \in Content
  BY DEF Blank, Content
<1>2. TypeOK
  <2>1. << >> \in Seq(Telling)
    OBVIOUS
  <2>2. told \in [Calls -> Seq({"value", "no", "error"})]
    BY <2>1 DEF Init, Telling
  <2>3. QED
    BY <1>1, <2>2 DEF Init, TypeOK, Kind
<1>3. \A c \in Calls : CallInv(c) /\ MetaInv(c)
  <2>1. Len(<< >>) = 0 /\ << >> # <<"value">> /\ << >> # <<"no">>
    OBVIOUS
  <2>2. \A c \in Calls : /\ at[c] = "new" /\ req[c] = None /\ told[c] = << >> /\ c \notin zips
                         /\ Unsent(c)
    BY DEF Init, Unsent
  <2>3. ASSUME NEW c \in Calls PROVE CallInv(c)
    BY <2>1, <2>2 DEF CallInv
  <2>4. ASSUME NEW c \in Calls PROVE MetaInv(c)
    BY <2>2 DEF MetaInv, Kind
  <2>5. QED
    BY <2>3, <2>4
<1>4. QED
  BY <1>2, <1>3 DEF Inv

LEMMA InvStep == Inv /\ [Next]_vars => Inv'
<1> SUFFICES ASSUME Inv, [Next]_vars PROVE Inv'
  OBVIOUS
<1>1. ASSUME NEW c \in Calls, Moves(c) PROVE Inv'
  <2>1. TypeOK'
    BY <1>1, TypeStep
  <2>2. CallInv(c)' /\ MetaInv(c)'
    BY <1>1, CallStep, MetaStep
  <2>3. \A d \in Calls \ {c} : CallInv(d)' /\ MetaInv(d)'
    BY <1>1, BystanderStep, LookingOn
  <2>4. QED
    BY <2>1, <2>2, <2>3 DEF Inv
<1>2. CASE UNCHANGED vars
  BY <1>2 DEF vars, Inv, TypeOK, CallInv, MetaInv, Kind, Unheard, Unsent
<1>3. QED
  BY <1>1, <1>2 DEF Next, Moves

THEOREM Invariance == Spec => []Inv
<1>1. QED
  BY InitInv, InvStep, PTL DEF Spec

(* Every variable keeps its type.                                           *)
THEOREM TypeCorrect == Spec => []TypeOK
<1>1. Inv => TypeOK
  BY DEF Inv
<1>2. QED
  BY <1>1, Invariance, PTL

(* Nobody is told twice, success only of what was done, and of a release    *)
(* only when its zip is gone.                                               *)
THEOREM Truthful == Spec => []ToldTheTruth
<1>1. Inv => ToldTheTruth
  BY DEF Inv, CallInv, ToldTheTruth
<1>2. QED
  BY <1>1, Invariance, PTL

(* A call that is over has told its caller, but for the callers the code    *)
(* forgets.                                                                 *)
THEOREM OverIsTold == Spec => []OverMeansTold
<1>1. Inv => OverMeansTold
  BY DEF Inv, CallInv, OverMeansTold
<1>2. QED
  BY <1>1, Invariance, PTL

(* A release is sent with the metadata it was called with unless another    *)
(* call wrote the same object before its file was ready.                    *)
THEOREM MetadataKept == Spec => []MetadataAsAsked
<1>1. Inv => MetadataAsAsked
  BY DEF Inv, MetaInv, MetadataAsAsked, Waits
<1>2. QED
  BY <1>1, Invariance, PTL

-----------------------------------------------------------------------------
(* What safety there is in SentIsTold: a call has no way back.              *)

\* The steps a call at this place can still take, at most.
StepsLeft(c) ==
    CASE crashed -> 0
      [] ~crashed /\ at[c] = "new" -> 6
      [] ~crashed /\ at[c] = "file" -> 5
      [] ~crashed /\ at[c] = "zipping" -> 4
      [] ~crashed /\ at[c] = "sent" -> IF c \in served THEN 2 ELSE 3
      [] ~crashed /\ at[c] = "cut" -> IF c \in served THEN 1 ELSE 2
      [] ~crashed /\ at[c] = "over" -> 0

\* A step of a call brings its end nearer.  Another call leaves it where it is,
\* or ends it with the process.
Nears(c) ==
    IF Moves(c) THEN StepsLeft(c)' < StepsLeft(c)
                ELSE StepsLeft(c)' \in {0, StepsLeft(c)}
CallsDwindle == [][\A c \in Calls : Nears(c)]_vars

LEMMA StepsAreFew ==
    ASSUME TypeOK, NEW c \in Calls
    PROVE  /\ StepsLeft(c) \in 0..6
           /\ StepsLeft(c) = 0 <=> crashed \/ at[c] = "over"
BY DEF TypeOK, StepsLeft

LEMMA OwnStepNears ==
    ASSUME TypeOK, NEW c \in Calls, Moves(c)
    PROVE  StepsLeft(c)' < StepsLeft(c)
<1> USE DEF TypeOK, Goto, Crash, IsAt
<1>1. ~crashed /\ at[c] # "over"
  <2>1. CASE \E r \in Request : Call(c, r)
    BY <2>1 DEF Call, Ask, PatchRelease, ReportDeploy, StartRelease, Make
  <2>2. CASE Step(c) \/ Break(c) \/ Serve(c)
    BY <2>2 DEF Step, OpenFile, ListDirectory, ZipDirectory, PackageFails, FileVanishes,
                Settle, AuthAnswered, ApiAnswered, ReleaseAnswered, QueryAnswered,
                ReportAnswered, Answered, Waits, Break, Serve
  <2>3. QED
    BY <2>1, <2>2 DEF Moves
<1>2. CASE crashed'
  BY <1>1, <1>2, StepsAreFew DEF StepsLeft
<1>3. CASE ~crashed' /\ at'[c] = "over"
  BY <1>1, <1>3, StepsAreFew DEF StepsLeft
<1>4. CASE ~crashed' /\ at'[c] # "over"
  <2>1. CASE \E r \in Request : Call(c, r)
    <3>1. at[c] = "new" /\ at'[c] \in {"file", "sent"}
      BY <1>4, <2>1 DEF Call, Ask, PatchRelease, ReportDeploy, StartRelease, Make
    <3>2. QED
      BY <1>1, <1>4, <3>1 DEF StepsLeft
  <2>2. CASE OpenFile(c) \/ ListDirectory(c) \/ ZipDirectory(c)
    <3>1. \/ at[c] = "file" /\ at'[c] \in {"zipping", "sent"}
          \/ at[c] = "zipping" /\ at'[c] = "sent"
      BY <2>2 DEF OpenFile, ListDirectory, ZipDirectory, Upload
    <3>2. QED
      BY <1>1, <1>4, <3>1 DEF StepsLeft
  <2>3. CASE Break(c)
    <3>1. at[c] = "sent" /\ at'[c] = "cut" /\ served' = served
      BY <2>3 DEF Break
    <3>2. QED
      BY <1>1, <1>4, <3>1 DEF StepsLeft
  <2>4. CASE Serve(c)
    <3>1. at[c] \in {"sent", "cut"} /\ at' = at /\ c \notin served /\ c \in served'
      BY <2>4 DEF Serve, Waits
    <3>2. QED
      BY <1>1, <1>4, <3>1 DEF StepsLeft
  <2>5. CASE PackageFails(c) \/ FileVanishes(c) \/ \E a \in Answers(c) : Settle(c, a)
    BY <1>4, <2>5 DEF PackageFails, FileVanishes, Settle, AuthAnswered, ApiAnswered,
                      ReleaseAnswered, QueryAnswered, ReportAnswered
  <2>6. QED
    BY <2>1, <2>2, <2>3, <2>4, <2>5 DEF Moves, Step
<1>5. QED
  BY <1>2, <1>3, <1>4

LEMMA OthersLookOn ==
    ASSUME Inv, Next, NEW c \in Calls, ~Moves(c)
    PROVE  StepsLeft(c)' \in {0, StepsLeft(c)}
<1>1. PICK d \in Calls : Moves(d)
  BY DEF Next, Moves
<1>2. at'[c] = at[c] /\ (c \in served' <=> c \in served)
  BY <1>1, BystanderStep DEF Bystander
<1>3. ~crashed
  <2>1. CASE \E r \in Request : Call(d, r)
    BY <2>1 DEF Call, Ask, PatchRelease, ReportDeploy, StartRelease, Make, IsAt
  <2>2. CASE Step(d) \/ Break(d) \/ Serve(d)
    BY <2>2 DEF Step, OpenFile, ListDirectory, ZipDirectory, PackageFails, FileVanishes,
                Settle, AuthAnswered, ApiAnswered, ReleaseAnswered, QueryAnswered,
                ReportAnswered, Answered, Waits, Break, Serve, IsAt
  <2>3. QED
    BY <1>1, <2>1, <2>2 DEF Moves
<1>4. CASE crashed'
  BY <1>4 DEF StepsLeft, Inv, TypeOK
<1>5. CASE ~crashed'
  BY <1>2, <1>3, <1>5 DEF StepsLeft, Inv, TypeOK
<1>6. QED
  BY <1>4, <1>5

(* A call takes six steps at most, the server's included, one fewer after   *)
(* each; it is not sent or answered again, and an exception in the handler  *)
(* of another call can only end it.                                         *)
THEOREM CallsEnd == Spec => CallsDwindle
<1>1. Inv /\ [Next]_vars => [\A c \in Calls : Nears(c)]_vars
  <2> SUFFICES ASSUME Inv, Next, NEW c \in Calls PROVE Nears(c)
    OBVIOUS
  <2>1. CASE Moves(c)
    BY <2>1, OwnStepNears DEF Nears, Inv
  <2>2. CASE ~Moves(c)
    BY <2>2, OthersLookOn DEF Nears
  <2>3. QED
    BY <2>1, <2>2
<1>2. QED
  BY <1>1, Invariance, PTL DEF Spec, CallsDwindle

===============================================================================
