-------------------------- MODULE NodeReportsProofs --------------------------
(***************************************************************************)
(* Proofs about the reports: what a collection has read so far against     *)
(* the node as it is now, and as it was when the collection began.         *)
(***************************************************************************)
EXTENDS NodeHelpersProofs

LEMMA ValueTypes ==
  ASSUME NEW raw \in Raw
  PROVE  Kept(MetadataValue(raw)) \in Value
<1>1. /\ raw.word \in Words \cup {NoWord} /\ NoWord \in Words \cup {NoWord}
      /\ "bare" \in Dress /\ "hash" \in Dress /\ "blanks" \in Dress /\ "unset" \in Dress
  BY DEF Raw, Dress
<1>2. PICK value : value = MetadataValue(raw)
  OBVIOUS
<1>3. value \in Value
  BY <1>1, <1>2 DEF MetadataValue, Shlex, Value, Bare, Unset
<1>4. Kept(value) \in Value
  BY <1>1, <1>3 DEF Kept, Value, Bare, Empty
<1> QED BY <1>2, <1>4

LEMMA AnnouncedTypes ==
  ASSUME NodeTypeOK
  PROVE  Announced(env) \in [id : Value, project : Value]
<1>1. env.id \in Raw /\ env.project \in Raw
  BY NodeAssumption DEF NodeTypeOK, File
<1>2. Kept(MetadataValue(env.id)) \in Value /\ Kept(MetadataValue(env.project)) \in Value
  BY <1>1, ValueTypes
<1> QED BY <1>2 DEF Announced

LEMMA UnknownTypes == Unwritten \in Versions /\ Unknown \in Known /\ Unknown.says = "unknown"
<1>1. 0 \in 0..MaxEvents
  BY NodeAssumption
<1>2. Unwritten \in Versions
  BY <1>1 DEF Unwritten, Versions
<1> QED BY <1>1, <1>2 DEF Unknown, Known

LEMMA ParsedTypes ==
  ASSUME NEW s \in Status
  PROVE  /\ Parsed(s) \in Known
         /\ Parsed(s).says = "finished" => Parsed(s) = s
         /\ Parsed(s).says # "unknown" =>
              Parsed(s).of = s.of /\ (s.says = "finished" => Parsed(s).says = "finished")
<1>1. CASE s.says = "finished"
  BY <1>1 DEF Parsed, Status, Known
<1>2. CASE s.says = "running"
  <2>1. Parsed(s) = [s EXCEPT !.left = Unwritten]
    BY <1>2 DEF Parsed
  <2>2. /\ Parsed(s) \in Known /\ Parsed(s).of = s.of /\ Parsed(s).says = "running"
    BY <1>2, <2>1, UnknownTypes DEF Status, Known
  <2> QED BY <1>2, <2>2
<1>3. CASE s.says \notin {"finished", "running"}
  BY <1>3, UnknownTypes DEF Parsed
<1> QED BY <1>1, <1>2, <1>3

LEMMA Order ==
  /\ ReadOrder[1] = "status.json"
  /\ \A i \in 2..5 : ReadOrder[i] \in StateFiles /\ ReadOrder[i] # "status.json"
  /\ \A f \in StateFiles : \E i \in 2..5 : ReadOrder[i] = f
<1>1. /\ ReadOrder[1] = "status.json" /\ ReadOrder[2] = "current-sha"
      /\ ReadOrder[3] = "previous-sha" /\ ReadOrder[4] = "deployed-at"
      /\ ReadOrder[5] = "last-error.log"
  BY DEF ReadOrder
<1>2. \A i \in 2..5 : i \in {2, 3, 4, 5}
  OBVIOUS
<1>3. {2, 3, 4, 5} \subseteq 2..5
  OBVIOUS
<1> QED BY <1>1, <1>2, <1>3 DEF StateFiles

-----------------------------------------------------------------------------
Early == scan.stage \in {"idle", "listed", "snapshot"}

(* A state file that the collection has read.                              *)
Done(f) ==
  \/ scan.stage \in {"read", "reported"}
  \/ Stage("declared") /\ \E i \in 2..5 : i < scan.next /\ ReadOrder[i] = f

(* status.json is read first ...                                           *)
StatusFirst ==
  /\ scan \in Scan
  /\ Early => scan.status = Unknown /\ scan.next = 1
  /\ Stage("declared") => scan.next \in 1..5
  /\ Stage("declared") /\ scan.next = 1 => scan.status = Unknown

(* ... so that the files, which only go forward, are never behind it.      *)
Whole ==
  scan.status.says = "finished" =>
    \A f \in StateFiles : /\ scan.status.left[f] <= files[f]
                          /\ Done(f) => scan.status.left[f] <= scan.files[f]

(* An operation that was answered with success remains one, and status.json*)
(* cannot be older.                                                        *)
Told ==
  scan.answered # 0 =>
    /\ scan.answered <= events /\ operations[scan.answered].outcome = "success"
    /\ scan.status.says # "unknown" =>
         \/ scan.status.of > scan.answered
         \/ scan.status.of = scan.answered /\ scan.status.says = "finished"

(* What was there when the collection began has been inspected, or is gone *)
(* for good: an id is never used again.                                    *)
Gone == ~(scan.begun \subseteq containers)

Seen ==
  /\ \A c \in scan.begun : c.id <= events
  /\ ~scan.faulty =>
       /\ scan.stage \in {"listed", "snapshot", "declared", "read"} =>
            scan.listed = scan.begun
       /\ scan.stage \in {"snapshot", "declared", "read"} =>
            scan.lost \/ scan.listed \subseteq scan.records
       /\ scan.lost => Gone
       /\ Stage("reported") /\ scan.missed # {} => Gone

ReportInv == StatusFirst /\ Whole /\ Told /\ Seen

(* The node moves on under a collection that does not.                     *)
LEMMA ReportStays ==
  ASSUME ReportInv, NodeInv, NodeInv', Onward, UNCHANGED scan
  PROVE  ReportInv'
<1>1. events \in Int /\ events' \in Int /\ \A f \in StateFiles : files[f] \in Int /\ files'[f] \in Int
  BY DEF NodeInv, NodeTypeOK, Versions
<1>2. StatusFirst'
  BY DEF ReportInv, StatusFirst, Early, Stage
<1>3. Whole'
  <2>1. \A f \in StateFiles : scan.status.left[f] \in Int
    BY DEF ReportInv, StatusFirst, Scan, Known, Versions
  <2>2. \A f \in StateFiles : files[f] <= files'[f]
    BY DEF Onward
  <2>3. \A f \in StateFiles : Done(f)' <=> Done(f)
    BY DEF Done, Stage
  <2> QED BY <1>1, <2>1, <2>2, <2>3 DEF ReportInv, Whole
<1>4. Told'
  <2>1. scan.answered \in 0..MaxEvents
    BY DEF ReportInv, StatusFirst, Scan
  <2>2. CASE scan.answered # 0
    <3>1. scan.answered \in Numbers
      BY <2>1, <2>2, NodeAssumption DEF Numbers
    <3>2. operations'[scan.answered].outcome = "success" /\ scan.answered <= events'
      BY <1>1, <2>2, <3>1, NodeAssumption DEF ReportInv, Told, Onward, Numbers
    <3> QED BY <2>2, <3>2 DEF ReportInv, Told
  <2> QED BY <2>2 DEF Told
<1>5. Seen'
  <2>1. \A c \in scan.begun : c.id \in Int
    BY NodeAssumption DEF ReportInv, StatusFirst, Scan, Container
  <2>2. Gone => Gone'
    BY <1>1, <2>1 DEF ReportInv, Seen, Gone, Onward
  <2>3. \A c \in scan.begun : c.id <= events'
    BY <1>1, <2>1 DEF ReportInv, Seen, Onward
  <2> QED BY <2>2, <2>3 DEF ReportInv, Seen, Stage
<1> QED BY <1>2, <1>3, <1>4, <1>5 DEF ReportInv

-----------------------------------------------------------------------------
(* A collection changes nothing of the node but the count.                 *)
Still ==
  /\ UNCHANGED <<env, containers, status, files, lock, operations>>
  /\ events \in Int /\ events' \in {events, events + 1}

LEMMA CollectionIsStill ==
  ASSUME NodeTypeOK, CollectionStep
  PROVE  Still
<1>1. events \in Int
  BY DEF NodeTypeOK
<1>2. UNCHANGED nodeVars \/ (Happens /\ UNCHANGED <<env, containers, status, files, lock, operations>>)
  BY DEF CollectionStep, Collects, List, ListFails, InspectContainer, InspectDone, SnapshotFails,
         ReadDeclaration, MetadataFails, ReadStateFile, Assemble
<1> QED BY <1>1, <1>2 DEF Still, nodeVars, Happens

(* What was told, and what was there, while a collection goes on.          *)
LEMMA ToldKept ==
  ASSUME ReportInv, NodeInv, Still, scan'.answered = scan.answered,
         scan'.status \in {scan.status, Unknown}
  PROVE  Told'
<1>1. scan.answered \in Int
  BY NodeAssumption DEF ReportInv, StatusFirst, Scan
<1> QED BY <1>1, UnknownTypes DEF ReportInv, Told, Still

LEMMA BegunKept ==
  ASSUME ReportInv, Still, scan'.begun = scan.begun
  PROVE  (\A c \in scan.begun : c.id <= events)' /\ (Gone => Gone')
<1>1. \A c \in scan.begun : c.id \in Int
  BY NodeAssumption DEF ReportInv, StatusFirst, Scan, Container
<1> QED BY <1>1 DEF ReportInv, Seen, Gone, Still

LEMMA SeenKept ==
  ASSUME ReportInv, Still, scan'.begun = scan.begun,
         ~scan'.faulty =>
           /\ ~scan.faulty
           /\ scan'.stage \in {"snapshot", "declared", "read"}
           /\ scan.stage \in {"snapshot", "declared", "read"}
           /\ scan'.listed = scan.listed /\ scan'.records = scan.records
           /\ scan'.lost = scan.lost
  PROVE  Seen'
<1>1. CASE scan'.faulty
  BY <1>1, BegunKept DEF Seen
<1>2. CASE ~scan'.faulty
  BY <1>2, BegunKept DEF ReportInv, Seen, Stage
<1> QED BY <1>1, <1>2

LEMMA IdleTypes ==
  /\ Idle \in Scan
  /\ Idle.status = Unknown /\ Idle.next = 1 /\ Idle.lost = FALSE /\ Idle.faulty = FALSE
  /\ Idle.listed = {} /\ Idle.stage = "idle" /\ Idle.begun = {} /\ Idle.answered = 0
<1>1. NoWord \in Words \cup {NoWord} /\ "bare" \in Dress
  BY DEF Dress
<1>2. NoInstance \in [id : Value, project : Value]
  BY <1>1 DEF NoInstance, Empty, Bare, Value
<1>3. 0 \in 0..MaxEvents /\ 1 \in 1..6 /\ "idle" \in Stages
  BY NodeAssumption DEF Stages
<1>4. {} \in SUBSET Container
  OBVIOUS
<1> QED BY <1>2, <1>3, <1>4, UnknownTypes DEF Idle, Scan

LEMMA SuccessTypes ==
  ASSUME HelperInv
  PROVE  /\ Success \in 0..MaxEvents
         /\ Success # 0 => Success <= events /\ operations[Success].outcome = "success"
<1>1. CASE request.answer = "SUCCESS"
  <2>1. Success = request.operation
    BY <1>1 DEF Success
  <2>2. request.operation \in 0..MaxEvents
    BY DEF HelperInv, Checked, Request
  <2>3. Succeeded /\ OfCommand
    BY <1>1 DEF HelperInv, Runs
  <2> QED BY <2>1, <2>2, <2>3 DEF Succeeded, OfCommand
<1>2. CASE request.answer # "SUCCESS"
  BY <1>2, NodeAssumption DEF Success
<1> QED BY <1>1, <1>2

LEMMA ListKeeps ==
  ASSUME HelperInv, ReportInv, Still, List(Success) \/ ListFails(Success)
  PROVE  ReportInv'
<1>0. NodeInv /\ NodeTypeOK
  BY DEF HelperInv, NodeInv
<1>1. PICK idle, answered : idle = Idle /\ answered = Success
  OBVIOUS
<1>2. answered \in 0..MaxEvents /\ containers \in SUBSET Container
  BY <1>0, <1>1, SuccessTypes DEF NodeTypeOK
<1>3. "listed" \in Stages
  BY DEF Stages
<1>4. /\ scan' \in Scan /\ scan'.stage = "listed" /\ scan'.status = Unknown
      /\ scan'.next = 1 /\ scan'.begun = containers /\ scan'.answered = answered
      /\ scan'.lost = FALSE /\ (scan'.faulty \/ scan'.listed = containers)
  <2>1. CASE List(Success)
    <3>1. scan' = [idle EXCEPT !.stage = "listed", !.listed = containers,
                               !.begun = containers, !.answered = answered]
      BY <1>1, <2>1 DEF List
    <3> QED BY <1>1, <1>2, <1>3, <3>1, IdleTypes DEF Scan
  <2>2. CASE ListFails(Success)
    <3>1. scan' = [idle EXCEPT !.stage = "listed", !.begun = containers,
                               !.answered = answered, !.faulty = TRUE]
      BY <1>1, <2>2 DEF ListFails
    <3> QED BY <1>1, <1>2, <1>3, <3>1, IdleTypes DEF Scan
  <2> QED BY <2>1, <2>2
<1>5. StatusFirst'
  BY <1>4 DEF StatusFirst, Early, Stage
<1>6. Whole'
  BY <1>4, UnknownTypes DEF Whole
<1>7. Told'
  <2>1. answered # 0 => answered <= events' /\ operations'[answered].outcome = "success"
    BY <1>1, <1>2, SuccessTypes, NodeAssumption DEF Still
  <2> QED BY <1>4, <2>1, UnknownTypes DEF Told
<1>8. Seen'
  <2>1. \A c \in containers : c.id \in Int /\ c.id <= events
    BY <1>0, NodeAssumption DEF NodeInv, NodeTypeOK, Container
  <2>2. \A c \in scan'.begun : c.id <= events'
    BY <1>4, <2>1 DEF Still
  <2> QED BY <1>4, <2>2 DEF Seen, Stage
<1> QED BY <1>5, <1>6, <1>7, <1>8 DEF ReportInv

(* What an inspection may do to a collection.                              *)
LEMMA EarlyKeeps ==
  ASSUME NodeInv, ReportInv, Still, Stage("listed"), scan' \in Scan,
         scan'.stage \in {"listed", "snapshot"}, scan'.next = scan.next,
         scan'.status = scan.status, scan'.answered = scan.answered,
         scan'.begun = scan.begun, scan'.listed = scan.listed,
         ~scan'.faulty =>
           /\ ~scan.faulty
           /\ scan'.lost => Gone
           /\ scan'.stage = "snapshot" => scan'.lost \/ scan.listed \subseteq scan'.records
  PROVE  ReportInv'
<1>1. scan.status = Unknown /\ scan.next = 1
  BY DEF ReportInv, StatusFirst, Early, Stage
<1>2. StatusFirst'
  BY <1>1 DEF StatusFirst, Early, Stage
<1>3. Whole'
  BY <1>1, UnknownTypes DEF Whole
<1>4. Told'
  BY ToldKept
<1>5. Seen'
  <2>1. ~scan.faulty => scan.listed = scan.begun
    BY DEF ReportInv, Seen, Stage
  <2> QED BY <2>1, BegunKept DEF Seen, Stage
<1> QED BY <1>2, <1>3, <1>4, <1>5 DEF ReportInv

LEMMA InspectionKeeps ==
  ASSUME NodeInv, ReportInv, Still,
         (\E c \in scan.listed : InspectContainer(c)) \/ InspectDone \/ SnapshotFails
  PROVE  ReportInv'
<1>0. scan \in Scan /\ "snapshot" \in Stages
  BY DEF ReportInv, StatusFirst, Stages
<1>1. Stage("listed")
  BY DEF InspectContainer, InspectDone, SnapshotFails
<1>2. ~scan.faulty => (scan.lost => Gone) /\ scan.listed = scan.begun
  BY <1>1 DEF ReportInv, Seen, Stage
<1>3. ASSUME NEW c \in scan.listed, InspectContainer(c) PROVE ReportInv'
  <2>0. c \in Container
    BY <1>0 DEF Scan
  <2>1. CASE c \in containers
    <3>1. scan' = [scan EXCEPT !.records = scan.records \cup {c}]
      BY <1>3, <2>1 DEF InspectContainer
    <3>2. scan.records \cup {c} \in SUBSET Container
      BY <1>0, <2>0 DEF Scan
    <3>3. /\ scan' \in Scan /\ scan'.stage = scan.stage /\ scan'.next = scan.next
          /\ scan'.status = scan.status /\ scan'.answered = scan.answered
          /\ scan'.begun = scan.begun /\ scan'.listed = scan.listed
          /\ scan'.faulty = scan.faulty /\ scan'.lost = scan.lost
      BY <1>0, <3>1, <3>2 DEF Scan
    <3> QED BY <1>1, <1>2, <3>3, EarlyKeeps DEF Stage
  <2>2. CASE c \notin containers
    <3>1. scan' = [scan EXCEPT !.lost = TRUE, !.stage = "snapshot"]
      BY <1>3, <2>2 DEF InspectContainer
    <3>2. /\ scan' \in Scan /\ scan'.stage = "snapshot" /\ scan'.next = scan.next
          /\ scan'.status = scan.status /\ scan'.answered = scan.answered
          /\ scan'.begun = scan.begun /\ scan'.listed = scan.listed
          /\ scan'.faulty = scan.faulty /\ scan'.lost = TRUE
      BY <1>0, <3>1 DEF Scan
    <3>3. ~scan.faulty => Gone
      BY <1>2, <2>2 DEF Gone
    <3> QED BY <1>1, <3>2, <3>3, EarlyKeeps
  <2> QED BY <2>1, <2>2
<1>4. CASE InspectDone
  <2>1. scan' = [scan EXCEPT !.stage = "snapshot"] /\ scan.listed \subseteq scan.records
    BY <1>4 DEF InspectDone
  <2>2. /\ scan' \in Scan /\ scan'.stage = "snapshot" /\ scan'.next = scan.next
        /\ scan'.status = scan.status /\ scan'.answered = scan.answered
        /\ scan'.begun = scan.begun /\ scan'.listed = scan.listed
        /\ scan'.faulty = scan.faulty /\ scan'.lost = scan.lost /\ scan'.records = scan.records
    BY <1>0, <2>1 DEF Scan
  <2> QED BY <1>1, <1>2, <2>1, <2>2, EarlyKeeps
<1>5. CASE SnapshotFails
  <2>1. scan' = [scan EXCEPT !.lost = TRUE, !.faulty = TRUE, !.stage = "snapshot"]
    BY <1>5 DEF SnapshotFails
  <2>2. /\ scan' \in Scan /\ scan'.stage = "snapshot" /\ scan'.next = scan.next
        /\ scan'.status = scan.status /\ scan'.answered = scan.answered
        /\ scan'.begun = scan.begun /\ scan'.listed = scan.listed /\ scan'.faulty = TRUE
    BY <1>0, <2>1 DEF Scan
  <2> QED BY <1>1, <2>2, EarlyKeeps
<1> QED BY <1>3, <1>4, <1>5

LEMMA DeclarationKeeps ==
  ASSUME NodeInv, ReportInv, Still, ReadDeclaration \/ MetadataFails
  PROVE  ReportInv'
<1>0. scan \in Scan /\ "read" \in Stages /\ "declared" \in Stages
  BY DEF ReportInv, StatusFirst, Stages
<1>1. ASSUME scan' \in Scan, scan'.status = Unknown, scan'.answered = scan.answered,
             scan'.begun = scan.begun,
             scan'.stage = "read" \/ (scan'.stage = "declared" /\ scan'.next = 1),
             ~scan'.faulty =>
               /\ ~scan.faulty /\ Stage("snapshot")
               /\ scan'.listed = scan.listed /\ scan'.records = scan.records
               /\ scan'.lost = scan.lost
      PROVE  ReportInv'
  <2>1. StatusFirst'
    BY <1>1 DEF StatusFirst, Early, Stage
  <2>2. Whole'
    BY <1>1, UnknownTypes DEF Whole
  <2>3. Told'
    BY <1>1, ToldKept
  <2>4. Seen'
    BY <1>1, SeenKept DEF Stage
  <2> QED BY <2>1, <2>2, <2>3, <2>4 DEF ReportInv
<1>2. CASE ReadDeclaration
  <2>1. PICK shown \in [id : Value, project : Value] : shown = Announced(env)
    BY AnnouncedTypes DEF NodeInv
  <2>2. Stage("snapshot") /\ scan.status = Unknown /\ scan.next = 1
    BY <1>2 DEF ReadDeclaration, Stage, ReportInv, StatusFirst, Early
  <2>3. \/ scan' = [scan EXCEPT !.stage = "read"]
        \/ scan' = [scan EXCEPT !.stage = "declared", !.instance = shown]
    BY <1>2, <2>1 DEF ReadDeclaration
  <2>4. /\ scan' \in Scan /\ scan'.status = Unknown /\ scan'.answered = scan.answered
        /\ scan'.begun = scan.begun /\ scan'.next = 1
        /\ scan'.stage \in {"read", "declared"} /\ scan'.faulty = scan.faulty
        /\ scan'.listed = scan.listed /\ scan'.records = scan.records
        /\ scan'.lost = scan.lost
    <3>1. CASE scan' = [scan EXCEPT !.stage = "read"]
      BY <1>0, <2>2, <3>1 DEF Scan
    <3>2. CASE scan' = [scan EXCEPT !.stage = "declared", !.instance = shown]
      BY <1>0, <2>1, <2>2, <3>2 DEF Scan
    <3> QED BY <2>3, <3>1, <3>2
  <2>5. CASE scan.faulty
    BY <1>1, <2>4, <2>5
  <2>6. CASE ~scan.faulty
    BY <1>1, <2>2, <2>4, <2>6
  <2> QED BY <2>5, <2>6
<1>3. CASE MetadataFails
  <2>1. scan' = [scan EXCEPT !.stage = "read", !.faulty = TRUE, !.instance = NoInstance,
                             !.status = Unknown, !.files = Unwritten]
    BY <1>3 DEF MetadataFails
  <2>2. NoInstance \in [id : Value, project : Value]
    BY IdleTypes DEF Idle, Scan
  <2>3. /\ scan' \in Scan /\ scan'.status = Unknown /\ scan'.answered = scan.answered
        /\ scan'.begun = scan.begun /\ scan'.stage = "read" /\ scan'.faulty = TRUE
    BY <1>0, <2>1, <2>2, UnknownTypes DEF Scan
  <2> QED BY <1>1, <2>3
<1> QED BY <1>2, <1>3

LEMMA ReadingKeeps ==
  ASSUME NodeInv, ReportInv, Still, ReadStateFile
  PROVE  ReportInv'
<1>0. scan \in Scan /\ "read" \in Stages /\ "declared" \in Stages
  BY DEF ReportInv, StatusFirst, Stages
<1>n. status \in Status /\ files \in Versions /\ Parsed(status) \in Known
  BY ParsedTypes DEF NodeInv, NodeTypeOK
<1>1. PICK i \in 1..5 : i = scan.next
  BY DEF ReadStateFile, ReportInv, StatusFirst
<1>2. PICK stage \in {"read", "declared"} : stage = IF i = 5 THEN "read" ELSE "declared"
  OBVIOUS
<1>3. PICK name : name = ReadOrder[i]
  OBVIOUS
<1>4. PICK read :
        /\ read = IF name = "status.json" THEN [scan EXCEPT !.status = Parsed(status)]
                                          ELSE [scan EXCEPT !.files[name] = files[name]]
        /\ scan' = [read EXCEPT !.next = i + 1, !.stage = stage]
  <2>1. PICK read : read = IF name = "status.json"
                           THEN [scan EXCEPT !.status = Parsed(status)]
                           ELSE [scan EXCEPT !.files[name] = files[name]]
    OBVIOUS
  <2>2. read.next = scan.next
    BY <1>0, <2>1 DEF Scan
  <2> QED BY <1>1, <1>2, <1>3, <2>1, <2>2 DEF ReadStateFile
<1>5. Stage("declared") /\ ~Early
  BY DEF ReadStateFile, Stage, Early
<1>6. CASE i = 1
  <2>1. read = [scan EXCEPT !.status = Parsed(status)]
    BY <1>3, <1>4, <1>6, Order
  <2>2. PICK known \in Known : known = Parsed(status)
    BY <1>n
  <2>3. /\ scan' \in Scan /\ scan'.stage = "declared" /\ scan'.next = 2
        /\ scan'.status = known /\ scan'.answered = scan.answered
        /\ scan'.begun = scan.begun /\ scan'.listed = scan.listed
        /\ scan'.records = scan.records
        /\ scan'.faulty = scan.faulty /\ scan'.lost = scan.lost /\ scan'.files = scan.files
    <3>1. stage = "declared" /\ stage \in Stages /\ i + 1 = 2 /\ 2 \in 1..6
      BY <1>0, <1>2, <1>6
    <3>2. read = [scan EXCEPT !.status = known]
      BY <2>1, <2>2
    <3> QED BY <1>0, <1>4, <3>1, <3>2 DEF Scan
  <2>4. StatusFirst'
    BY <2>3 DEF StatusFirst, Early, Stage
  <2>5. Whole'
    <3>1. ASSUME NEW f \in StateFiles PROVE ~Done(f)'
      BY <2>3 DEF Done, Stage
    <3>2. known.says = "finished" => \A f \in StateFiles : known.left[f] <= files'[f]
      BY <1>n, <2>2, ParsedTypes DEF NodeInv, Still
    <3> QED BY <2>3, <3>1, <3>2 DEF Whole
  <2>6. Told'
    <3>1. CASE scan.answered # 0 /\ known.says # "unknown"
      <4>1. PICK k \in Numbers : k = scan.answered
        BY <1>0, <3>1, NodeAssumption DEF Scan, Numbers
      <4>2. operations[k].outcome = "success" /\ k <= events
        BY <3>1, <4>1 DEF ReportInv, Told
      <4>3. k <= status.of /\ (k = status.of => status.says = "finished")
        BY <4>2 DEF NodeInv
      <4>4. known.of = status.of /\ (status.says = "finished" => known.says = "finished")
        BY <1>n, <2>2, <3>1, ParsedTypes
      <4>5. k \in Int /\ status.of \in Int
        BY <1>n, NodeAssumption DEF Numbers, Status
      <4>6. known.of > k \/ (known.of = k /\ known.says = "finished")
        BY <4>3, <4>4, <4>5
      <4> QED BY <2>3, <4>1, <4>2, <4>5, <4>6 DEF Told, Still
    <3>2. CASE scan.answered = 0
      BY <2>3, <3>2 DEF Told
    <3>3. CASE scan.answered # 0 /\ known.says = "unknown"
      <4>1. scan.answered \in Int
        BY <1>0, NodeAssumption DEF Scan
      <4> QED BY <2>3, <3>3, <4>1 DEF ReportInv, Told, Still
    <3> QED BY <3>1, <3>2, <3>3
  <2>7. Seen'
    BY <1>5, <2>3, SeenKept DEF Stage
  <2> QED BY <2>4, <2>5, <2>6, <2>7 DEF ReportInv
<1>7. CASE i # 1
  <2>0. i \in 2..5 /\ i + 1 \in 1..6
    BY <1>7
  <2>1. name \in StateFiles /\ read = [scan EXCEPT !.files[name] = files[name]]
    BY <1>3, <1>4, <2>0, Order
  <2>2. PICK known : known = [scan.files EXCEPT ![name] = files[name]]
    OBVIOUS
  <2>3. known \in Versions /\ known[name] = files[name]
        /\ \A f \in StateFiles : f # name => known[f] = scan.files[f]
    BY <1>0, <1>n, <2>1, <2>2 DEF Scan, Versions
  <2>4. read = [scan EXCEPT !.files = known]
    BY <1>0, <2>1, <2>2 DEF Scan
  <2>5. /\ scan' \in Scan /\ scan'.stage = stage /\ scan'.next = i + 1
        /\ scan'.status = scan.status /\ scan'.answered = scan.answered
        /\ scan'.begun = scan.begun /\ scan'.listed = scan.listed
        /\ scan'.records = scan.records
        /\ scan'.faulty = scan.faulty /\ scan'.lost = scan.lost /\ scan'.files = known
    BY <1>0, <1>2, <1>4, <2>0, <2>3, <2>4 DEF Scan
  <2>6. StatusFirst'
    BY <1>2, <2>0, <2>5 DEF StatusFirst, Early, Stage
  <2>7. Whole'
    <3> SUFFICES ASSUME scan.status.says = "finished", NEW f \in StateFiles
                 PROVE  /\ scan.status.left[f] <= files[f]
                        /\ Done(f)' => scan.status.left[f] <= known[f]
      BY <2>5 DEF Whole, Still
    <3>1. scan.status.left[f] <= files[f] /\ (Done(f) => scan.status.left[f] <= scan.files[f])
      BY DEF ReportInv, Whole
    <3>2. Done(f)' => f = name \/ Done(f)
      <4>1. PICK j \in 2..5 : ReadOrder[j] = f
        BY Order
      <4>2. CASE stage = "read"
        <5>1. i = 5
          BY <1>2, <4>2
        <5> QED BY <1>1, <1>3, <1>5, <4>1, <5>1 DEF Done
      <4>3. CASE stage = "declared"
        <5>1. ASSUME Done(f)' PROVE \E m \in 2..5 : m < i + 1 /\ ReadOrder[m] = f
          BY <2>5, <4>3, <5>1 DEF Done, Stage
        <5>2. ASSUME NEW m \in 2..5, m < i + 1, ReadOrder[m] = f
              PROVE  f = name \/ Done(f)
          <6>1. m = i \/ m < i
            BY <2>0, <5>2
          <6> QED BY <1>1, <1>3, <1>5, <5>2, <6>1 DEF Done
        <5> QED BY <5>1, <5>2
      <4> QED BY <1>2, <4>2, <4>3
    <3> QED BY <2>3, <3>1, <3>2
  <2>8. Told'
    BY <2>5, ToldKept
  <2>9. Seen'
    BY <1>2, <1>5, <2>5, SeenKept DEF Stage
  <2> QED BY <2>6, <2>7, <2>8, <2>9 DEF ReportInv
<1> QED BY <1>6, <1>7

LEMMA AssembleKeeps ==
  ASSUME NodeInv, ReportInv, Still, Assemble
  PROVE  ReportInv'
<1>0. scan \in Scan /\ "reported" \in Stages
  BY DEF ReportInv, StatusFirst, Stages
<1>1. PICK project : project = scan.instance.project
  OBVIOUS
<1>2. PICK shown : shown = IF scan.lost THEN {} ELSE ContainersForProject(scan.records, project)
  OBVIOUS
<1>3. PICK stayed : stayed = {c \in scan.begun \cap containers :
                                project # Empty /\ c.labels.project = project}
  OBVIOUS
<1>4. Stage("read") /\ scan' = [scan EXCEPT !.stage = "reported", !.listed = {},
                                            !.records = shown, !.missed = stayed \ shown]
  BY <1>1, <1>2, <1>3 DEF Assemble
<1>5. shown \in SUBSET Container /\ stayed \ shown \in SUBSET Container
  <2>1. scan.records \in SUBSET Container /\ scan.begun \in SUBSET Container
    BY <1>0 DEF Scan
  <2> QED BY <1>2, <1>3, <2>1 DEF ContainersForProject
<1>6. /\ scan' \in Scan /\ scan'.stage = "reported"
      /\ scan'.status = scan.status /\ scan'.answered = scan.answered
      /\ scan'.begun = scan.begun /\ scan'.missed = stayed \ shown
      /\ scan'.faulty = scan.faulty /\ scan'.lost = scan.lost /\ scan'.files = scan.files
  BY <1>0, <1>4, <1>5 DEF Scan
<1>7. StatusFirst'
  BY <1>6 DEF StatusFirst, Early, Stage
<1>8. Whole'
  <2>1. \A f \in StateFiles : Done(f)
    BY <1>4 DEF Done, Stage
  <2> QED BY <1>6, <2>1 DEF ReportInv, Whole, Still
<1>9. Told'
  BY <1>6, ToldKept
<1>10. Seen'
  <2>1. (\A c \in scan.begun : c.id <= events)' /\ (Gone => Gone')
    BY <1>6, BegunKept
  <2>2. CASE scan.faulty
    BY <1>6, <2>1, <2>2 DEF Seen
  <2>3. CASE ~scan.faulty
    <3>1. scan.listed = scan.begun /\ (scan.lost \/ scan.listed \subseteq scan.records)
          /\ (scan.lost => Gone)
      BY <1>4, <2>3 DEF ReportInv, Seen, Stage
    <3>2. CASE scan.lost
      BY <1>6, <2>1, <3>1, <3>2 DEF Seen, Stage
    <3>3. CASE ~scan.lost
      <4>1. stayed \subseteq shown
        BY <1>2, <1>3, <3>1, <3>3 DEF ContainersForProject
      <4> QED BY <1>6, <2>1, <3>3, <4>1 DEF Seen, Stage
    <3> QED BY <3>2, <3>3
  <2> QED BY <2>2, <2>3
<1> QED BY <1>7, <1>8, <1>9, <1>10 DEF ReportInv

-----------------------------------------------------------------------------
LEMMA ReportInvSteps ==
  ASSUME HelperInv, HelperInv', ReportInv, [Next]_vars
  PROVE  ReportInv'
<1>0. NodeInv /\ NodeInv' /\ NodeTypeOK /\ request \in Request
  BY DEF HelperInv, NodeInv, Checked
<1>1. Onward
  BY <1>0, StepsMove, NodeInvMoves
<1>2. CASE UNCHANGED scan
  BY <1>0, <1>1, <1>2, ReportStays
<1>3. CASE CollectionStep
  <2>1. Still
    BY <1>0, <1>3, CollectionIsStill
  <2> QED BY <1>0, <1>3, <2>1, ListKeeps, InspectionKeeps, DeclarationKeeps, ReadingKeeps,
             AssembleKeeps DEF CollectionStep, Collects
<1> QED BY <1>2, <1>3 DEF Next, NodeStep, RequestStep, vars

LEMMA ReportInvHolds == Spec => [](HelperInv /\ ReportInv)
<1>1. Init => ReportInv
  <2> SUFFICES ASSUME Init PROVE ReportInv
    OBVIOUS
  <2>1. scan = Idle
    BY DEF Init, CollectionInit
  <2>2. StatusFirst /\ Whole /\ Told
    BY <2>1, IdleTypes, UnknownTypes DEF StatusFirst, Early, Stage, Whole, Told
  <2>3. Seen
    BY <2>1, IdleTypes DEF Seen, Stage
  <2> QED BY <2>2, <2>3 DEF ReportInv
<1>2. HelperInv /\ HelperInv' /\ ReportInv /\ [Next]_vars => ReportInv'
  BY ReportInvSteps
<1> QED BY <1>1, <1>2, HelperInvHolds, PTL DEF Spec

(* The node, the request and the collection have their types.              *)
THEOREM TypesHold == Spec => []TypeOK
<1>1. HelperInv /\ ReportInv => TypeOK
  BY DEF HelperInv, NodeInv, Checked, ReportInv, StatusFirst, TypeOK
<1> QED BY <1>1, ReportInvHolds, PTL

(* A report that was begun after a command was answered with SUCCESS shows *)
(* that operation as finished, or a later one, or an unreadable status.    *)
THEOREM SuccessReported == Spec => []SuccessIsReported
<1>1. HelperInv /\ ReportInv => SuccessIsReported
  BY DEF ReportInv, Told, SuccessIsReported
<1> QED BY <1>1, ReportInvHolds, PTL

(* A report that shows an operation as finished shows state files that are *)
(* not older than its end.                                                 *)
THEOREM FinishedWhole == Spec => []FinishedIsWhole
<1>1. HelperInv /\ ReportInv => FinishedIsWhole
  <2> SUFFICES ASSUME ReportInv, Stage("reported"), scan.status.says = "finished",
                      NEW f \in StateFiles
               PROVE  scan.files[f] >= scan.status.left[f]
    BY DEF FinishedIsWhole
  <2>1. Done(f)
    BY DEF Done, Stage
  <2>2. scan.status.left[f] <= scan.files[f]
    BY <2>1 DEF ReportInv, Whole
  <2> QED BY <2>2
<1> QED BY <1>1, ReportInvHolds, PTL

(* Without a failed command, a container of the project that stayed is     *)
(* missing only from a report during which some container went.            *)
THEOREM MissedForReason == Spec => []MissedForAReason
<1>1. HelperInv /\ ReportInv => MissedForAReason
  BY DEF ReportInv, Seen, Gone, MissedForAReason, Stage
<1> QED BY <1>1, ReportInvHolds, PTL
=============================================================================
