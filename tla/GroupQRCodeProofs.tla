-------------------------- MODULE GroupQRCodeProofs ---------------------------
(* Theorems about GroupQRCode, for any administrators, visitors, names and bounds.
   The inductive invariant says what the request behind the mutex has in hand: a
   file that is there, under a name the setting does not have yet.             *)
EXTENDS GroupQRCode, FiniteSetTheorems, TLAPS

USE DEF At

Before(a) == admin[a].pc \in {"rename", "read", "set"}

InHand(a) ==
    /\ admin[a].pc \notin {"idle", "lock"} => mutex = a
    /\ admin[a].kind = "removal" => admin[a].name = Nothing
    /\ admin[a].pc \in {"check", "rename"} => admin[a].kind = "upload"
    /\ Before(a) /\ admin[a].kind = "upload" =>
          /\ admin[a].name \in named
          /\ admin[a].name # setting
          /\ At(a, "rename") \/ admin[a].name \in files
    /\ At(a, "remove") => setting = admin[a].name

(* A visitor about to look for a file read the setting as it is, or it moved. *)
Current(v) == visitor[v].pc = "stat" => visitor[v].moved \/ visitor[v].name = setting

Inv ==
    /\ TypeOK
    /\ setting \in Names => setting \in named
    /\ \A a \in Admins : InHand(a)
    /\ SettingHasFile
    /\ \A v \in Visitors : Current(v)
    /\ DeniedWasReplaced

-----------------------------------------------------------------------------
LEMMA Requested ==
    /\ None \in Requests /\ None.pc = "idle" /\ None.kind = "upload"
    /\ \A kind \in {"upload", "removal"} :
           /\ Request(kind) \in Requests
           /\ Request(kind).pc = "lock" /\ Request(kind).name = Nothing
  BY DEF None, Request, Requests, Stages, Values

LEMMA InitInv == Init => Inv
  <1> SUFFICES ASSUME Init PROVE Inv
    OBVIOUS
  <1>1. TypeOK
    <2>1. NoView \in Views  BY DEF NoView, Views, Values
    <2> QED  BY <2>1, Requested DEF Init, TypeOK, Values
  <1>2. \A a \in Admins : InHand(a)  BY <1>1, Requested DEF Init, InHand, Before
  <1>3. setting \notin Names  BY NamesDistinct DEF Init
  <1>4. \A v \in Visitors : visitor[v].pc = "idle"  BY DEF Init, NoView
  <1> QED  BY <1>1, <1>2, <1>3, <1>4 DEF Inv, SettingHasFile, Current, DeniedWasReplaced

-----------------------------------------------------------------------------
(* A step of a changes the record of a alone. *)
LEMMA Becomes ==
    ASSUME Inv, NEW a \in Admins, NEW r \in Requests, Become(a, r)
    PROVE  /\ admin' \in [Admins -> Requests]
           /\ admin'[a] = r
           /\ \A b \in Admins \ {a} : admin'[b] = admin[b]
  BY DEF Become, Inv, TypeOK

LEMMA GoesTo ==
    ASSUME Inv, NEW a \in Admins, NEW stage \in Stages, GoTo(a, stage)
    PROVE  /\ admin' \in [Admins -> Requests]
           /\ admin'[a] = [admin[a] EXCEPT !.pc = stage]
           /\ \A b \in Admins \ {a} : admin'[b] = admin[b]
           /\ admin[a] \in Requests
  <1>1. admin[a] \in Requests  BY DEF Inv, TypeOK
  <1>2. [admin[a] EXCEPT !.pc = stage] \in Requests  BY <1>1 DEF Requests
  <1> QED  BY <1>1, <1>2, Becomes DEF GoTo

LEMMA Leaves ==
    ASSUME Inv, NEW a \in Admins, Leave(a)
    PROVE  /\ admin' \in [Admins -> Requests]
           /\ \A b \in Admins \ {a} : admin'[b] = admin[b]
           /\ mutex' = Nobody
           /\ InHand(a)'
  <1>1. admin' \in [Admins -> Requests] /\ admin'[a] = None /\ \A b \in Admins \ {a} : admin'[b] = admin[b]
    BY Requested, Becomes DEF Leave
  <1> QED  BY <1>1, Requested DEF Leave, InHand, Before

(* The requests that do not hold the mutex have nothing in hand. *)
LEMMA OthersInHand ==
    ASSUME Inv, NEW a \in Admins, mutex \in {a, Nobody},
           \A b \in Admins \ {a} : admin'[b] = admin[b]
    PROVE  \A b \in Admins \ {a} : InHand(b)'
  <1> SUFFICES ASSUME NEW b \in Admins \ {a} PROVE InHand(b)'
    OBVIOUS
  <1>1. admin[b].pc \in {"idle", "lock"}  BY NobodyDistinct DEF Inv, InHand
  <1> QED  BY <1>1 DEF Inv, InHand, Before

(* A step by whoever holds the mutex, or takes it, that leaves the setting. *)
LEMMA SettingStays ==
    ASSUME Inv, TypeOK', NEW a \in Admins, mutex \in {a, Nobody}, InHand(a)',
           \A b \in Admins \ {a} : admin'[b] = admin[b],
           UNCHANGED <<setting, visitor, unsure>>, named \subseteq named',
           setting \in Names /\ setting \in files => setting \in files'
    PROVE  Inv'
  <1>1. \A b \in Admins : InHand(b)'  BY OthersInHand
  <1> QED  BY <1>1 DEF Inv, SettingHasFile, Current, DeniedWasReplaced

(* A step that writes the setting. *)
LEMMA SettingWritten ==
    ASSUME Inv, TypeOK', NEW a \in Admins, mutex = a, InHand(a)', Write(a),
           \A b \in Admins \ {a} : admin'[b] = admin[b],
           unsure \subseteq unsure', UNCHANGED named,
           admin[a].name \in Names => admin[a].name \in named,
           admin[a].name \in Names => admin[a].name \in files' \union unsure'
    PROVE  Inv'
  <1>1. \A b \in Admins : InHand(b)'  BY OthersInHand
  <1>2. setting' = admin[a].name  BY DEF Write
  <1>3. ASSUME NEW v \in Visitors
        PROVE  /\ visitor'[v].pc = visitor[v].pc /\ visitor'[v].name = visitor[v].name
               /\ visitor'[v].moved = (visitor[v].moved \/ setting # admin[a].name)
    BY <1>3 DEF Write, Inv, TypeOK, Views
  <1>4. \A v \in Visitors : Current(v)'  BY <1>2, <1>3 DEF Inv, Current
  <1>5. DeniedWasReplaced'  BY <1>3 DEF Inv, DeniedWasReplaced
  <1> QED  BY <1>1, <1>2, <1>4, <1>5 DEF Inv, SettingHasFile

(* The type of what a write does to the visitors. *)
LEMMA WrittenTypes ==
    ASSUME Inv, NEW a \in Admins, Write(a)
    PROVE  setting' \in Values /\ visitor' \in [Visitors -> Views]
  <1>1. ASSUME NEW v \in Visitors
        PROVE  [visitor[v] EXCEPT !.moved = @ \/ setting # admin[a].name] \in Views
    BY <1>1 DEF Inv, TypeOK, Views
  <1> QED  BY <1>1 DEF Write, Inv, TypeOK, Requests

-----------------------------------------------------------------------------
(* The steps of an administrator's request. *)
LEMMA ArriveInv ==
    ASSUME Inv, NEW a \in Admins, NEW kind \in {"upload", "removal"}, Arrive(a, kind)
    PROVE  Inv'
  <1>1. /\ admin' \in [Admins -> Requests] /\ admin'[a] = Request(kind)
        /\ \A b \in Admins \ {a} : admin'[b] = admin[b]
    BY Requested, Becomes DEF Arrive
  <1>2. TypeOK'  BY <1>1 DEF Arrive, Inv, TypeOK
  <1>3. ASSUME NEW b \in Admins  PROVE InHand(b)'
    <2>1. CASE b = a  BY <2>1, <1>1, Requested DEF InHand, Before
    <2>2. CASE b # a  BY <2>2, <1>1 DEF Arrive, Inv, InHand, Before
    <2> QED  BY <2>1, <2>2
  <1> QED  BY <1>2, <1>3 DEF Arrive, Inv, SettingHasFile, Current, DeniedWasReplaced

LEMMA LockInv ==
    ASSUME Inv, NEW a \in Admins, Lock(a)
    PROVE  Inv'
  <1> DEFINE stage == IF admin[a].kind = "upload" THEN "check" ELSE "read"
  <1>1. stage \in Stages  BY DEF Stages
  <1>2. /\ admin' \in [Admins -> Requests] /\ admin'[a] = [admin[a] EXCEPT !.pc = stage]
        /\ \A b \in Admins \ {a} : admin'[b] = admin[b]
        /\ admin[a] \in Requests
    BY <1>1, GoesTo DEF Lock
  <1>3. TypeOK'  BY <1>2 DEF Lock, Inv, TypeOK
  <1>4. InHand(a)'  BY <1>2 DEF Lock, Inv, InHand, Before, Requests
  <1> QED  BY <1>2, <1>3, <1>4, SettingStays DEF Lock

LEMMA HolderHolds ==
    ASSUME Inv, NEW a \in Admins, admin[a].pc \notin {"idle", "lock"}
    PROVE  mutex = a /\ admin[a] \in Requests
  BY DEF Inv, InHand, TypeOK

(* A request that ends without writing the setting, and leaves its file there. *)
LEMMA LeaveInv ==
    ASSUME Inv, NEW a \in Admins, admin[a].pc \notin {"idle", "lock"}, Leave(a),
           UNCHANGED <<setting, named, visitor, unsure>>,
           files' \subseteq files, temps' \subseteq temps,
           setting \in Names /\ setting \in files => setting \in files',
           litter' \in Nat, spent' \in [faults : Nat, crashes : Nat]
    PROVE  Inv'
  <1>1. TypeOK'  BY Leaves DEF Inv, TypeOK
  <1> QED  BY <1>1, Leaves, HolderHolds, SettingStays

LEMMA CreateTempInv ==
    ASSUME Inv, NEW a \in Admins, NEW name \in Names, CreateTemp(a, name)
    PROVE  Inv'
  <1> DEFINE r == [admin[a] EXCEPT !.pc = "rename", !.name = name]
  <1>1. mutex = a /\ admin[a] \in Requests  BY HolderHolds DEF CreateTemp
  <1>2. r \in Requests  BY <1>1 DEF Requests, Stages, Values
  <1>3. /\ admin' \in [Admins -> Requests] /\ admin'[a] = r
        /\ \A b \in Admins \ {a} : admin'[b] = admin[b]
    BY <1>2, Becomes DEF CreateTemp
  <1>4. TypeOK'  BY <1>3 DEF CreateTemp, Inv, TypeOK
  <1>5. InHand(a)'  BY <1>1, <1>3, NamesDistinct DEF CreateTemp, Inv, InHand, Before
  <1> QED  BY <1>1, <1>3, <1>4, <1>5, SettingStays DEF CreateTemp

LEMMA RenameInv ==
    ASSUME Inv, NEW a \in Admins, Rename(a)
    PROVE  Inv'
  <1>1. mutex = a /\ admin[a] \in Requests  BY HolderHolds DEF Rename
  <1>2. /\ admin' \in [Admins -> Requests] /\ admin'[a] = [admin[a] EXCEPT !.pc = "read"]
        /\ \A b \in Admins \ {a} : admin'[b] = admin[b]
    BY GoesTo DEF Rename, Stages
  <1>3. admin[a].kind = "upload" /\ admin[a].name \in named /\ admin[a].name # setting
    BY DEF Rename, Inv, InHand, Before
  <1>4. TypeOK'  BY <1>2, <1>3 DEF Rename, Inv, TypeOK
  <1>5. InHand(a)'  BY <1>1, <1>2, <1>3 DEF Rename, InHand, Before, Requests
  <1> QED  BY <1>1, <1>2, <1>4, <1>5, SettingStays DEF Rename

LEMMA FaultType == Inv /\ Fault => spent' \in [faults : Nat, crashes : Nat]
  BY DEF Fault, Inv, TypeOK

LEMMA ReadPreviousInv ==
    ASSUME Inv, NEW a \in Admins, ReadPrevious(a)
    PROVE  Inv'
  <1> DEFINE r == [admin[a] EXCEPT !.pc = "set", !.previous = setting]
  <1>1. mutex = a /\ admin[a] \in Requests  BY HolderHolds DEF ReadPrevious
  <1>2. r \in Requests  BY <1>1 DEF Requests, Stages, Inv, TypeOK
  <1>3. /\ admin' \in [Admins -> Requests] /\ admin'[a] = r
        /\ \A b \in Admins \ {a} : admin'[b] = admin[b]
    BY <1>2, Becomes DEF ReadPrevious
  <1>4. TypeOK'  BY <1>3 DEF ReadPrevious, Inv, TypeOK
  <1>5. InHand(a)'  BY <1>1, <1>3 DEF ReadPrevious, Inv, InHand, Before, Requests
  <1> QED  BY <1>1, <1>3, <1>4, <1>5, SettingStays DEF ReadPrevious

LEMMA ReadFailsInv ==
    ASSUME Inv, NEW a \in Admins, ReadFails(a)
    PROVE  Inv'
  <1>1. litter' \in Nat /\ spent' \in [faults : Nat, crashes : Nat]
    BY FaultType DEF ReadFails, Inv, TypeOK
  <1>2. CASE admin[a].kind # "upload"  BY <1>1, <1>2, LeaveInv DEF ReadFails
  <1>3. CASE admin[a].kind = "upload"
    <2>1. mutex = a /\ admin[a] \in Requests  BY HolderHolds DEF ReadFails
    <2>2. /\ admin' \in [Admins -> Requests] /\ admin'[a] = [admin[a] EXCEPT !.pc = "set"]
          /\ \A b \in Admins \ {a} : admin'[b] = admin[b]
      BY <1>3, GoesTo DEF ReadFails, Stages
    <2>3. TypeOK'  BY <1>1, <1>3, <2>2 DEF ReadFails, Inv, TypeOK
    <2>4. InHand(a)'  BY <1>3, <2>1, <2>2 DEF ReadFails, Inv, InHand, Before, Requests
    <2> QED  BY <1>3, <2>1, <2>2, <2>3, <2>4, SettingStays DEF ReadFails
  <1> QED  BY <1>2, <1>3

(* The file of an upload is there when the setting is written. *)
LEMMA FileBeforeSet ==
    ASSUME Inv, NEW a \in Admins, At(a, "set"), admin[a].name \in Names
    PROVE  admin[a].name \in named /\ admin[a].name \in files /\ admin[a].name # setting
  <1>1. admin[a].kind = "upload"  BY NamesDistinct, HolderHolds DEF Inv, InHand, Requests
  <1> QED  BY <1>1 DEF Inv, InHand, Before

LEMMA SetInv ==
    ASSUME Inv, NEW a \in Admins, Set(a)
    PROVE  Inv'
  <1>1. mutex = a /\ admin[a] \in Requests  BY HolderHolds DEF Set
  <1>2. /\ admin' \in [Admins -> Requests] /\ admin'[a] = [admin[a] EXCEPT !.pc = "remove"]
        /\ \A b \in Admins \ {a} : admin'[b] = admin[b]
    BY GoesTo DEF Set, Stages
  <1>3. TypeOK'  BY <1>2, WrittenTypes DEF Set, Inv, TypeOK
  <1>4. InHand(a)'
    <2>1. setting' = admin[a].name  BY DEF Set, Write
    <2>2. admin[a].kind = "removal" => admin[a].name = Nothing  BY DEF Inv, InHand
    <2> QED  BY <1>1, <1>2, <2>1, <2>2 DEF Set, InHand, Before, Requests
  <1> QED  BY <1>1, <1>2, <1>3, <1>4, FileBeforeSet, SettingWritten DEF Set

LEMMA SetFailsInv ==
    ASSUME Inv, NEW a \in Admins, SetFails(a)
    PROVE  Inv'
  <1>1. mutex = a /\ admin[a] \in Requests  BY HolderHolds DEF SetFails
  <1>2. files' \subseteq files /\ (setting \in files /\ setting # admin[a].name => setting \in files')
    BY DEF SetFails, Undo
  <1>3. CASE UNCHANGED <<setting, visitor, unsure>> /\ litter' \in {litter, litter + 1}
    <2>1. litter' \in Nat /\ spent' \in [faults : Nat, crashes : Nat]
      BY <1>3, FaultType DEF SetFails, Inv, TypeOK
    <2> QED  BY <1>2, <1>3, <2>1, LeaveInv, FileBeforeSet DEF SetFails
  <1>4. CASE Write(a) /\ unsure' = unsure \union {admin[a].name} /\ litter' = litter + 1
    <2>1. TypeOK'
      BY <1>1, <1>2, <1>4, Leaves, WrittenTypes, FaultType DEF SetFails, Inv, TypeOK, Requests
    <2> QED  BY <1>1, <1>4, <2>1, Leaves, FileBeforeSet, SettingWritten DEF SetFails
  <1> QED  BY <1>3, <1>4 DEF SetFails

(* What is removed is not what the setting now names. *)
LEMMA RemoveInv ==
    ASSUME Inv, NEW a \in Admins, Remove(a)
    PROVE  Inv'
  <1>1. setting = admin[a].name  BY DEF Remove, Inv, InHand
  <1>2. litter' \in Nat /\ spent' \in [faults : Nat, crashes : Nat]  BY DEF Remove, Inv, TypeOK
  <1> QED  BY <1>1, <1>2, LeaveInv DEF Remove

LEMMA RefuseInv == \A a \in Admins : Inv /\ Refuse(a) => Inv'
  <1> SUFFICES ASSUME NEW a \in Admins, Inv, Refuse(a) PROVE Inv'
    OBVIOUS
  <1>1. litter' \in Nat /\ spent' \in [faults : Nat, crashes : Nat]  BY DEF Refuse, Inv, TypeOK
  <1> QED  BY <1>1, LeaveInv DEF Refuse

LEMMA RenameFailsInv == \A a \in Admins : Inv /\ RenameFails(a) => Inv'
  <1> SUFFICES ASSUME NEW a \in Admins, Inv, RenameFails(a) PROVE Inv'
    OBVIOUS
  <1>1. litter' \in Nat /\ temps' \subseteq temps  BY DEF RenameFails, Inv, TypeOK
  <1> QED  BY <1>1, FaultType, LeaveInv DEF RenameFails

LEMMA RemoveFailsInv == \A a \in Admins : Inv /\ RemoveFails(a) => Inv'
  <1> SUFFICES ASSUME NEW a \in Admins, Inv, RemoveFails(a) PROVE Inv'
    OBVIOUS
  <1>1. litter' \in Nat  BY DEF RemoveFails, Inv, TypeOK
  <1> QED  BY <1>1, FaultType, LeaveInv DEF RemoveFails

LEMMA CrashInv == Inv /\ Crash => Inv'
  <1> SUFFICES ASSUME Inv, Crash PROVE Inv'
    OBVIOUS
  <1>1. NoView \in Views /\ NoView.pc = "idle"  BY DEF NoView, Views, Values
  <1>2. TypeOK'  BY <1>1, Requested DEF Crash, Inv, TypeOK
  <1>3. \A a \in Admins : InHand(a)'  BY Requested DEF Crash, InHand, Before
  <1> QED  BY <1>1, <1>2, <1>3 DEF Crash, Inv, SettingHasFile, Current, DeniedWasReplaced

-----------------------------------------------------------------------------
(* The steps of a visitor. *)
LEMMA VisitorInv ==
    ASSUME Inv, NEW v \in Visitors, NEW w \in Views, visitor' = [visitor EXCEPT ![v] = w],
           UNCHANGED <<setting, files, temps, named, mutex, admin, unsure, litter, spent>>,
           Current(v)',
           w.pc = "denied" /\ w.name \in Names => w.moved \/ w.name \in unsure
    PROVE  Inv'
  <1>1. visitor' \in [Visitors -> Views]  BY DEF Inv, TypeOK
  <1>2. visitor'[v] = w /\ \A u \in Visitors \ {v} : visitor'[u] = visitor[u]
    BY DEF Inv, TypeOK
  <1>3. TypeOK'  BY <1>1 DEF Inv, TypeOK
  <1>4. \A a \in Admins : InHand(a)'  BY DEF Inv, InHand, Before
  <1>5. \A u \in Visitors : Current(u)'  BY <1>2 DEF Inv, Current
  <1>6. DeniedWasReplaced'  BY <1>2 DEF Inv, DeniedWasReplaced
  <1> QED  BY <1>3, <1>4, <1>5, <1>6 DEF Inv, SettingHasFile

LEMMA ViewInv ==
    ASSUME Inv, NEW v \in Visitors, View(v)
    PROVE  Inv'
  <1> DEFINE w == [pc |-> "stat", name |-> setting, moved |-> FALSE]
  <1>1. w \in Views  BY DEF Views, Inv, TypeOK
  <1>2. visitor'[v] = w  BY DEF View, Inv, TypeOK
  <1>3. Current(v)'  BY <1>2 DEF View, Current
  <1> QED  BY <1>1, <1>3, VisitorInv DEF View

(* A file that is missing was named by a setting that moved, or is unsure. *)
LEMMA StatInv ==
    ASSUME Inv, NEW v \in Visitors, Stat(v)
    PROVE  Inv'
  <1> DEFINE w == [visitor[v] EXCEPT !.pc = IF visitor[v].name \in files THEN "served" ELSE "denied"]
  <1>1. visitor[v] \in Views  BY DEF Inv, TypeOK
  <1>2. w \in Views  BY <1>1 DEF Views
  <1>3. visitor' = [visitor EXCEPT ![v] = w]  BY DEF Stat, Inv, TypeOK
  <1>4. Current(v)'  BY <1>1, <1>3 DEF Current, Inv, TypeOK, Views
  <1>5. w.name = visitor[v].name /\ w.moved = visitor[v].moved
        /\ (w.pc = "denied" => visitor[v].name \notin files)
    BY <1>1 DEF Views
  <1>6. visitor[v].moved \/ visitor[v].name = setting  BY DEF Stat, Inv, Current
  <1>7. w.pc = "denied" /\ w.name \in Names => w.moved \/ w.name \in unsure
    BY <1>5, <1>6 DEF Inv, SettingHasFile
  <1> QED  BY <1>2, <1>3, <1>4, <1>7, VisitorInv DEF Stat

-----------------------------------------------------------------------------
LEMMA NextInv == Inv /\ [Next]_vars => Inv'
  <1> SUFFICES ASSUME Inv, [Next]_vars PROVE Inv'
    OBVIOUS
  <1>1. ASSUME NEW a \in Admins, Handle(a)  PROVE Inv'
    BY <1>1, ArriveInv, LockInv, RefuseInv, CreateTempInv, RenameInv, RenameFailsInv,
       ReadPreviousInv, ReadFailsInv, SetInv, SetFailsInv, RemoveInv, RemoveFailsInv DEF Handle
  <1>2. ASSUME NEW v \in Visitors, View(v) \/ Stat(v)  PROVE Inv'
    BY <1>2, ViewInv, StatInv
  <1>3. CASE Crash  BY <1>3, CrashInv
  <1>4. CASE UNCHANGED vars
    BY <1>4 DEF vars, Inv, TypeOK, InHand, Before, SettingHasFile, Current, DeniedWasReplaced
  <1> QED  BY <1>1, <1>2, <1>3, <1>4 DEF Next

LEMMA InvHolds == Spec => []Inv
  BY InitInv, NextInv, PTL DEF Spec

(* Requests, files and settings keep their types, through every failure. *)
THEOREM TypeCorrect == Spec => []TypeOK
  <1>1. Inv => TypeOK  BY DEF Inv
  <1> QED  BY <1>1, InvHolds, PTL

(* The setting names an uploaded image that is there, whichever requests, failures
   and crashes come together, unless its writing was answered with an error
   (qrcode_upload.go:109-121). *)
THEOREM SettingAlwaysHasFile == Spec => []SettingHasFile
  <1>1. Inv => SettingHasFile  BY DEF Inv
  <1> QED  BY <1>1, InvHolds, PTL

(* A visitor is denied the image only if the setting moved under him
   (qrcode_upload.go:143-161). *)
THEOREM DeniedOnlyIfReplaced == Spec => []DeniedWasReplaced
  <1>1. Inv => DeniedWasReplaced  BY DEF Inv
  <1> QED  BY <1>1, InvHolds, PTL

-----------------------------------------------------------------------------
(* Leftovers. The image in use is about to be one when the request that replaces
   it could not read its name: that failure is counted before the image is left
   over, so what is bounded by the failures are the files that nothing keeps.  *)
HandHas(a, x) == admin[a].name = x \/ (At(a, "remove") /\ admin[a].previous = x)

InUse(x) == \E a \in Admins : HandHas(a, x)

ReadFailed == \E a \in Admins : At(a, "set") /\ admin[a].previous # setting

Loose == {x \in files \union temps : ~InUse(x) /\ (x = setting => ReadFailed)}

(* Each file is in one place, and only the request behind the mutex has any. *)
TidyHand(a) ==
    /\ admin[a].pc \in {"idle", "lock", "check"} => admin[a].name = Nothing
    /\ admin[a].pc \notin {"set", "remove"} => admin[a].previous = Nothing
    /\ At(a, "rename") => admin[a].name \notin files
    /\ admin[a].pc \in {"read", "set", "remove"} => admin[a].name \notin temps
    /\ admin[a].pc \in {"set", "remove"} => admin[a].previous \notin temps

Tidy ==
    /\ files \subseteq named /\ temps \subseteq named
    /\ setting \notin temps
    /\ \A a \in Admins : TidyHand(a)

Counted == IsFiniteSet(Loose) /\ Cardinality(Loose) <= litter

(* A step leaves a file over only if it counts one. *)
LooseStep ==
    \/ litter' = litter /\ Loose' \subseteq Loose
    \/ litter' = litter + 1 /\ \E x : Loose' \subseteq Loose \union {x}

LEMMA CountedStep ==
    ASSUME Inv, Counted, LooseStep
    PROVE  Counted'
  <1>1. litter \in Nat /\ IsFiniteSet(Loose) /\ Cardinality(Loose) \in Nat /\ Cardinality(Loose) <= litter
    BY FS_CardinalityType DEF Inv, TypeOK, Counted
  <1> DEFINE L == Loose
             M == Loose'
  <1> HIDE DEF L, M
  <1>2. ASSUME NEW S, IsFiniteSet(S), Cardinality(S) <= litter', M \subseteq S, Cardinality(S) \in Nat,
               litter' \in Nat
        PROVE  IsFiniteSet(M) /\ Cardinality(M) <= litter'
    <2>1. IsFiniteSet(M) /\ Cardinality(M) <= Cardinality(S) /\ Cardinality(M) \in Nat
      BY <1>2, FS_Subset, FS_CardinalityType
    <2> QED  BY <1>2, <2>1
  <1>3. ASSUME litter' = litter, M \subseteq L
        PROVE  IsFiniteSet(M) /\ Cardinality(M) <= litter'
    BY <1>1, <1>2, <1>3 DEF L
  <1>4. ASSUME litter' = litter + 1, NEW x, M \subseteq L \union {x}
        PROVE  IsFiniteSet(M) /\ Cardinality(M) <= litter'
    <2> DEFINE S == L \union {x}
    <2>1. /\ IsFiniteSet(S)
          /\ Cardinality(S) = Cardinality(L) \/ Cardinality(S) = Cardinality(L) + 1
      BY <1>1, FS_AddElement DEF L
    <2>2. Cardinality(S) \in Nat /\ Cardinality(S) <= litter' /\ litter' \in Nat
      BY <1>1, <1>4, <2>1 DEF L
    <2> HIDE DEF S
    <2> QED  BY <1>2, <1>4, <2>1, <2>2 DEF S
  <1> QED  BY <1>3, <1>4 DEF LooseStep, Counted, L, M

(* While a request holds the mutex, nobody else has anything in hand. *)
LEMMA OthersEmptyHanded ==
    ASSUME Inv, Tidy, NEW a \in Admins, admin[a].pc \notin {"idle", "lock"},
           \A b \in Admins \ {a} : admin'[b] = admin[b]
    PROVE  /\ \A b \in Admins \ {a} : admin[b].pc \in {"idle", "lock"} /\ TidyHand(b)'
           /\ \A x \in Names : (InUse(x) <=> HandHas(a, x)) /\ (InUse(x)' <=> HandHas(a, x)')
           /\ ReadFailed <=> At(a, "set") /\ admin[a].previous # setting
           /\ ReadFailed' <=> At(a, "set")' /\ admin'[a].previous # setting'
  <1>1. \A b \in Admins \ {a} : admin[b].pc \in {"idle", "lock"}
    BY HolderHolds DEF Inv, InHand
  <1>2. \A b \in Admins \ {a} : admin[b].name = Nothing /\ admin[b].previous = Nothing
    BY <1>1 DEF Tidy, TidyHand
  <1>3. \A b \in Admins \ {a} : TidyHand(b)'  BY <1>1, <1>2 DEF TidyHand
  <1>4. \A x \in Names, b \in Admins \ {a} : ~HandHas(b, x) /\ ~HandHas(b, x)'
    BY <1>1, <1>2, NamesDistinct DEF HandHas
  <1>5. \A b \in Admins \ {a} : ~At(b, "set") /\ ~At(b, "set")'  BY <1>1
  <1> QED  BY <1>1, <1>3, <1>4, <1>5 DEF InUse, ReadFailed

(* The request leaves with nothing in hand. *)
LEMMA LeavesEmptyHanded ==
    ASSUME Inv, NEW a \in Admins, Leave(a)
    PROVE  /\ \A b \in Admins \ {a} : admin'[b] = admin[b]
           /\ TidyHand(a)'
           /\ ~At(a, "set")'
           /\ \A x \in Names : ~HandHas(a, x)'
  <1>1. None.pc = "idle" /\ None.name = Nothing /\ None.previous = Nothing
    BY DEF None, Request
  <1>2. admin'[a] = None /\ \A b \in Admins \ {a} : admin'[b] = admin[b]
    BY Requested, Becomes DEF Leave
  <1> QED  BY <1>1, <1>2, NamesDistinct DEF TidyHand, HandHas

LEMMA StaysTidy ==
    ASSUME Inv, Tidy, NEW a \in Admins, admin[a].pc \notin {"idle", "lock"},
           \A b \in Admins \ {a} : admin'[b] = admin[b],
           TidyHand(a)', files' \subseteq named', temps' \subseteq named', setting' \notin temps'
    PROVE  Tidy'
  BY OthersEmptyHanded DEF Tidy

(* Nothing is in use any more once the request has left. *)
LEMMA LeavesTidy ==
    ASSUME Inv, Tidy, NEW a \in Admins, admin[a].pc \notin {"idle", "lock"}, Leave(a),
           files' \subseteq files, temps' \subseteq temps, UNCHANGED named, setting' \notin temps'
    PROVE  /\ Tidy'
           /\ Loose' = (files' \union temps') \ {setting'}
           /\ \A x \in files \union temps : x \in Names /\ (InUse(x) <=> HandHas(a, x))
  <1>1. /\ \A b \in Admins \ {a} : admin'[b] = admin[b]
        /\ TidyHand(a)' /\ ~At(a, "set")' /\ \A x \in Names : ~HandHas(a, x)'
    BY LeavesEmptyHanded
  <1>2. Tidy'  BY <1>1, StaysTidy DEF Tidy
  <1>3. \A x \in Names : (InUse(x) <=> HandHas(a, x)) /\ ~InUse(x)'
    BY <1>1, OthersEmptyHanded
  <1>4. ~ReadFailed'  BY <1>1, OthersEmptyHanded
  <1>5. files \subseteq Names /\ temps \subseteq Names  BY DEF Inv, TypeOK
  <1> QED  BY <1>2, <1>3, <1>4, <1>5 DEF Loose

LEMMA LeftOverIs ==
    ASSUME NEW x, x \in files \union temps, ~InUse(x), x # setting
    PROVE  x \in Loose
  BY DEF Loose

-----------------------------------------------------------------------------
LEMMA IdleStepTidy ==
    ASSUME Inv, Tidy, NEW a \in Admins,
           (\E kind \in {"upload", "removal"} : Arrive(a, kind)) \/ Lock(a)
    PROVE  Tidy' /\ LooseStep
  <1>1. /\ admin'[a].name = Nothing /\ admin'[a].previous = Nothing
        /\ admin'[a].pc \in {"lock", "check", "read"}
        /\ \A b \in Admins \ {a} : admin'[b] = admin[b]
    <2>1. ASSUME NEW kind \in {"upload", "removal"}, Arrive(a, kind)
          PROVE  admin'[a] = Request(kind) /\ \A b \in Admins \ {a} : admin'[b] = admin[b]
      BY <2>1, Requested, Becomes DEF Arrive
    <2>2. ASSUME Lock(a), NEW stage \in {"check", "read"}, GoTo(a, stage)
          PROVE  /\ admin'[a].name = Nothing /\ admin'[a].previous = Nothing /\ admin'[a].pc = stage
                 /\ \A b \in Admins \ {a} : admin'[b] = admin[b]
      <3>1. /\ admin'[a] = [admin[a] EXCEPT !.pc = stage] /\ admin[a] \in Requests
            /\ \A b \in Admins \ {a} : admin'[b] = admin[b]
        BY <2>2, GoesTo DEF Stages
      <3>2. admin[a].name = Nothing /\ admin[a].previous = Nothing
        BY <2>2 DEF Lock, Tidy, TidyHand
      <3> QED  BY <3>1, <3>2 DEF Requests
    <2> QED  BY <2>1, <2>2 DEF Request, Lock
  <1>2. admin[a].name = Nothing /\ admin[a].previous = Nothing /\ admin[a].pc \in {"idle", "lock"}
    BY DEF Arrive, Lock, Tidy, TidyHand
  <1>3. UNCHANGED <<setting, files, temps, named, litter>>  BY DEF Arrive, Lock
  <1>4. files \subseteq Names /\ temps \subseteq Names  BY DEF Inv, TypeOK
  <1>5. \A b \in Admins : TidyHand(b)'
    <2>1. Nothing \notin temps  BY <1>4, NamesDistinct
    <2>2. TidyHand(a)'  BY <1>1, <1>3, <2>1 DEF TidyHand
    <2>3. \A b \in Admins \ {a} : TidyHand(b)'  BY <1>1, <1>3 DEF Tidy, TidyHand
    <2> QED  BY <2>2, <2>3
  <1>6. \A x \in Names : InUse(x)' <=> InUse(x)
    <2>1. \A x \in Names : ~HandHas(a, x) /\ ~HandHas(a, x)'  BY <1>1, <1>2, NamesDistinct DEF HandHas
    <2>2. \A x \in Names, b \in Admins \ {a} : HandHas(b, x)' <=> HandHas(b, x)  BY <1>1 DEF HandHas
    <2> QED  BY <2>1, <2>2 DEF InUse
  <1>7. ReadFailed' <=> ReadFailed  BY <1>1, <1>2, <1>3 DEF ReadFailed
  <1>8. Loose' = Loose  BY <1>3, <1>4, <1>6, <1>7 DEF Loose
  <1> QED  BY <1>3, <1>5, <1>8 DEF Tidy, LooseStep

LEMMA RefuseTidy ==
    ASSUME Inv, Tidy, NEW a \in Admins, Refuse(a)
    PROVE  Tidy' /\ LooseStep
  <1>1. UNCHANGED <<setting, files, temps, named, litter>>  BY DEF Refuse
  <1>2. /\ Tidy' /\ Loose' = (files' \union temps') \ {setting'}
        /\ \A x \in files \union temps : x \in Names /\ (InUse(x) <=> HandHas(a, x))
    BY <1>1, LeavesTidy DEF Refuse, Tidy
  <1>3. \A x \in Names : ~HandHas(a, x)  BY NamesDistinct DEF Refuse, HandHas, Tidy, TidyHand
  <1>4. Loose' \subseteq Loose  BY <1>1, <1>2, <1>3, LeftOverIs
  <1> QED  BY <1>1, <1>2, <1>4 DEF LooseStep

LEMMA CreateTempTidy ==
    ASSUME Inv, Tidy, NEW a \in Admins, NEW name \in Names, CreateTemp(a, name)
    PROVE  Tidy' /\ LooseStep
  <1> DEFINE r == [admin[a] EXCEPT !.pc = "rename", !.name = name]
  <1>1. admin[a].pc = "check" /\ admin[a] \in Requests  BY HolderHolds DEF CreateTemp
  <1>2. r \in Requests  BY <1>1 DEF Requests, Stages, Values
  <1>3. admin'[a] = r /\ \A b \in Admins \ {a} : admin'[b] = admin[b]  BY <1>2, Becomes DEF CreateTemp
  <1>4. r.pc = "rename" /\ r.name = name /\ r.previous = Nothing
    BY <1>1 DEF Requests, Tidy, TidyHand
  <1>5. /\ UNCHANGED <<setting, files, litter>> /\ name \notin named
        /\ temps' = temps \union {name} /\ named' = named \union {name}
    BY DEF CreateTemp
  <1>6. name \notin files /\ name # setting  BY <1>5 DEF Inv, Tidy
  <1>7. Tidy'
    <2>1. TidyHand(a)'  BY <1>3, <1>4, <1>5, <1>6 DEF TidyHand
    <2> QED  BY <1>1, <1>3, <1>5, <1>6, <2>1, StaysTidy DEF Tidy
  <1>8. /\ \A x \in Names : (InUse(x) <=> HandHas(a, x)) /\ (InUse(x)' <=> HandHas(a, x)')
        /\ ~ReadFailed /\ ~ReadFailed'
    BY <1>1, <1>3, <1>4, OthersEmptyHanded
  <1>9. \A x \in Names : ~HandHas(a, x) /\ (HandHas(a, x)' <=> x = name)
    BY <1>1, <1>3, <1>4, NamesDistinct DEF HandHas, Tidy, TidyHand
  <1>10. files \subseteq Names /\ temps \subseteq Names  BY DEF Inv, TypeOK
  <1>11. Loose' \subseteq Loose  BY <1>5, <1>8, <1>9, <1>10 DEF Loose
  <1> QED  BY <1>5, <1>7, <1>11 DEF LooseStep

LEMMA RenameTidy ==
    ASSUME Inv, Tidy, NEW a \in Admins, Rename(a)
    PROVE  Tidy' /\ LooseStep
  <1> DEFINE name == admin[a].name
  <1>1. admin[a].pc = "rename" /\ admin[a] \in Requests  BY HolderHolds DEF Rename
  <1>2. admin'[a] = [admin[a] EXCEPT !.pc = "read"] /\ \A b \in Admins \ {a} : admin'[b] = admin[b]
    BY GoesTo DEF Rename, Stages
  <1>3. admin'[a].pc = "read" /\ admin'[a].name = name /\ admin'[a].previous = Nothing
    BY <1>1, <1>2 DEF Requests, Tidy, TidyHand
  <1>4. /\ UNCHANGED <<setting, named, litter>>
        /\ temps' = temps \ {name} /\ files' = files \union {name}
    BY DEF Rename
  <1>5. name \in named  BY <1>1 DEF Inv, InHand, Before
  <1>6. Tidy'
    <2>1. TidyHand(a)'  BY <1>3, <1>4 DEF TidyHand
    <2> QED  BY <1>1, <1>2, <1>4, <1>5, <2>1, StaysTidy DEF Tidy
  <1>7. /\ \A x \in Names : (InUse(x) <=> HandHas(a, x)) /\ (InUse(x)' <=> HandHas(a, x)')
        /\ ~ReadFailed /\ ~ReadFailed'
    BY <1>1, <1>2, <1>3, OthersEmptyHanded
  <1>8. \A x \in Names : HandHas(a, x)' <=> HandHas(a, x)  BY <1>1, <1>3 DEF HandHas
  <1>9. files' \subseteq Names /\ temps \subseteq Names  BY <1>4, <1>5 DEF Inv, TypeOK
  <1>10. HandHas(a, name)  BY DEF HandHas
  <1>11. Loose' \subseteq Loose  BY <1>4, <1>7, <1>8, <1>9, <1>10 DEF Loose
  <1> QED  BY <1>4, <1>6, <1>11 DEF LooseStep

LEMMA RenameFailsTidy ==
    ASSUME Inv, Tidy, NEW a \in Admins, RenameFails(a)
    PROVE  Tidy' /\ LooseStep
  <1> DEFINE name == admin[a].name
  <1>1. /\ UNCHANGED <<setting, files, named>> /\ temps' \subseteq temps
        /\ name \notin files /\ admin[a].pc = "rename"
    BY DEF RenameFails, Tidy, TidyHand
  <1>2. /\ Tidy' /\ Loose' = (files' \union temps') \ {setting'}
        /\ \A x \in files \union temps : x \in Names /\ (InUse(x) <=> HandHas(a, x))
    BY <1>1, LeavesTidy DEF RenameFails, Tidy
  <1>3. \A x : HandHas(a, x) <=> x = name  BY <1>1 DEF HandHas
  <1>4. CASE temps' = temps \ {name} /\ UNCHANGED litter
    <2>1. Loose' \subseteq Loose  BY <1>1, <1>2, <1>3, <1>4, LeftOverIs
    <2> QED  BY <1>2, <1>4, <2>1 DEF LooseStep
  <1>5. CASE litter' = litter + 1
    <2>1. Loose' \subseteq Loose \union {name}  BY <1>1, <1>2, <1>3, LeftOverIs
    <2> QED  BY <1>2, <1>5, <2>1 DEF LooseStep
  <1> QED  BY <1>4, <1>5 DEF RenameFails

LEMMA ReadPreviousTidy ==
    ASSUME Inv, Tidy, NEW a \in Admins, ReadPrevious(a)
    PROVE  Tidy' /\ LooseStep
  <1> DEFINE r == [admin[a] EXCEPT !.pc = "set", !.previous = setting]
  <1>1. admin[a].pc = "read" /\ admin[a] \in Requests  BY HolderHolds DEF ReadPrevious
  <1>2. r \in Requests  BY <1>1 DEF Requests, Stages, Inv, TypeOK
  <1>3. admin'[a] = r /\ \A b \in Admins \ {a} : admin'[b] = admin[b]  BY <1>2, Becomes DEF ReadPrevious
  <1>4. r.pc = "set" /\ r.name = admin[a].name /\ r.previous = setting  BY <1>1 DEF Requests
  <1>5. UNCHANGED <<setting, files, temps, named, litter>>  BY DEF ReadPrevious
  <1>6. Tidy'
    <2>1. TidyHand(a)'  BY <1>1, <1>3, <1>4, <1>5 DEF Tidy, TidyHand
    <2> QED  BY <1>1, <1>3, <1>5, <2>1, StaysTidy DEF Tidy
  <1>7. /\ \A x \in Names : (InUse(x) <=> HandHas(a, x)) /\ (InUse(x)' <=> HandHas(a, x)')
        /\ ~ReadFailed /\ ~ReadFailed'
    BY <1>1, <1>3, <1>4, <1>5, OthersEmptyHanded
  <1>8. \A x \in Names : HandHas(a, x)' <=> HandHas(a, x)  BY <1>1, <1>3, <1>4 DEF HandHas
  <1>9. files \subseteq Names /\ temps \subseteq Names  BY DEF Inv, TypeOK
  <1>10. Loose' \subseteq Loose  BY <1>5, <1>7, <1>8, <1>9 DEF Loose
  <1> QED  BY <1>5, <1>6, <1>10 DEF LooseStep

(* From here on the image in use will be left over: it is counted now. *)
LEMMA ReadFailsTidy ==
    ASSUME Inv, Tidy, NEW a \in Admins, ReadFails(a)
    PROVE  Tidy' /\ LooseStep
  <1>1. admin[a].pc = "read" /\ admin[a] \in Requests  BY HolderHolds DEF ReadFails
  <1>2. UNCHANGED <<setting, files, temps, named>>  BY DEF ReadFails
  <1>3. files \subseteq Names /\ temps \subseteq Names  BY DEF Inv, TypeOK
  <1>4. CASE admin[a].kind # "upload"
    <2>1. UNCHANGED litter /\ Leave(a)  BY <1>4 DEF ReadFails
    <2>2. /\ Tidy' /\ Loose' = (files' \union temps') \ {setting'}
          /\ \A x \in files \union temps : x \in Names /\ (InUse(x) <=> HandHas(a, x))
      BY <1>1, <1>2, <2>1, LeavesTidy DEF Tidy
    <2>3. admin[a].name = Nothing  BY <1>1, <1>4 DEF Requests, Inv, InHand
    <2>4. \A x \in Names : ~HandHas(a, x)  BY <1>1, <2>3, NamesDistinct DEF HandHas
    <2>5. Loose' \subseteq Loose  BY <1>2, <2>2, <2>4, LeftOverIs
    <2> QED  BY <2>1, <2>2, <2>5 DEF LooseStep
  <1>5. CASE admin[a].kind = "upload"
    <2>1. litter' = litter + 1 /\ GoTo(a, "set")  BY <1>5 DEF ReadFails
    <2>2. admin'[a] = [admin[a] EXCEPT !.pc = "set"] /\ \A b \in Admins \ {a} : admin'[b] = admin[b]
      BY <2>1, GoesTo DEF Stages
    <2>3. admin'[a].pc = "set" /\ admin'[a].name = admin[a].name /\ admin'[a].previous = Nothing
      BY <1>1, <2>2 DEF Requests, Tidy, TidyHand
    <2>4. Tidy'
      <3>1. TidyHand(a)'  BY <1>1, <1>2, <1>3, <2>3, NamesDistinct DEF Tidy, TidyHand
      <3> QED  BY <1>1, <1>2, <2>2, <3>1, StaysTidy DEF Tidy
    <2>5. \A x \in Names : (InUse(x) <=> HandHas(a, x)) /\ (InUse(x)' <=> HandHas(a, x)')
      BY <1>1, <2>2, OthersEmptyHanded
    <2>6. \A x \in Names : HandHas(a, x)' <=> HandHas(a, x)  BY <1>1, <2>3 DEF HandHas
    <2>7. Loose' \subseteq Loose \union {setting}  BY <1>2, <1>3, <2>5, <2>6 DEF Loose
    <2> QED  BY <2>1, <2>4, <2>7 DEF LooseStep
  <1> QED  BY <1>4, <1>5

(* The previous image is in the hands of the request, or was counted. *)
LEMMA SetTidy ==
    ASSUME Inv, Tidy, NEW a \in Admins, Set(a)
    PROVE  Tidy' /\ LooseStep
  <1>1. admin[a].pc = "set" /\ admin[a] \in Requests  BY HolderHolds DEF Set
  <1>2. admin'[a] = [admin[a] EXCEPT !.pc = "remove"] /\ \A b \in Admins \ {a} : admin'[b] = admin[b]
    BY GoesTo DEF Set, Stages
  <1>3. admin'[a].pc = "remove" /\ admin'[a].name = admin[a].name
        /\ admin'[a].previous = admin[a].previous
    BY <1>1, <1>2 DEF Requests
  <1>4. UNCHANGED <<files, temps, named, litter>> /\ setting' = admin[a].name  BY DEF Set, Write
  <1>5. Tidy'
    <2>1. TidyHand(a)'  BY <1>1, <1>3, <1>4 DEF Tidy, TidyHand
    <2>2. setting' \notin temps'  BY <1>1, <1>4 DEF Tidy, TidyHand
    <2> QED  BY <1>1, <1>2, <1>4, <2>1, <2>2, StaysTidy DEF Tidy
  <1>6. /\ \A x \in Names : (InUse(x) <=> HandHas(a, x)) /\ (InUse(x)' <=> HandHas(a, x)')
        /\ ReadFailed <=> admin[a].previous # setting
    BY <1>1, <1>2, OthersEmptyHanded
  <1>7. \A x : /\ HandHas(a, x) <=> x = admin[a].name
               /\ HandHas(a, x)' <=> x = admin[a].name \/ x = admin[a].previous
    BY <1>1, <1>3 DEF HandHas
  <1>8. files \subseteq Names /\ temps \subseteq Names  BY DEF Inv, TypeOK
  <1>9. Loose' \subseteq Loose  BY <1>4, <1>6, <1>7, <1>8 DEF Loose
  <1> QED  BY <1>4, <1>5, <1>9 DEF LooseStep

LEMMA SetFailsTidy ==
    ASSUME Inv, Tidy, NEW a \in Admins, SetFails(a)
    PROVE  Tidy' /\ LooseStep
  <1> DEFINE name == admin[a].name
  <1>1. /\ admin[a].pc = "set" /\ files' \subseteq files /\ UNCHANGED <<temps, named>>
        /\ name \notin temps /\ setting \notin temps
    BY DEF SetFails, Undo, Tidy, TidyHand
  <1>2. \/ UNCHANGED <<setting, litter>> /\ files' = files \ {name}
        \/ UNCHANGED setting /\ litter' = litter + 1
        \/ setting' = name /\ litter' = litter + 1
    BY DEF SetFails, Write, Undo
  <1>3. /\ Tidy' /\ Loose' = (files' \union temps') \ {setting'}
        /\ \A x \in files \union temps : x \in Names /\ (InUse(x) <=> HandHas(a, x))
    BY <1>1, <1>2, LeavesTidy DEF SetFails
  <1>4. \A x : HandHas(a, x) <=> x = name  BY <1>1 DEF HandHas
  <1>5. CASE UNCHANGED <<setting, litter>> /\ files' = files \ {name}
    <2>1. Loose' \subseteq Loose  BY <1>1, <1>3, <1>4, <1>5, LeftOverIs
    <2> QED  BY <1>3, <1>5, <2>1 DEF LooseStep
  <1>6. CASE UNCHANGED setting /\ litter' = litter + 1
    <2>1. Loose' \subseteq Loose \union {name}  BY <1>1, <1>3, <1>4, <1>6, LeftOverIs
    <2> QED  BY <1>3, <1>6, <2>1 DEF LooseStep
  <1>7. CASE setting' = name /\ litter' = litter + 1
    <2>1. Loose' \subseteq Loose \union {setting}  BY <1>1, <1>3, <1>4, <1>7, LeftOverIs
    <2> QED  BY <1>3, <1>7, <2>1 DEF LooseStep
  <1> QED  BY <1>2, <1>5, <1>6, <1>7

LEMMA RemoveTidy ==
    ASSUME Inv, Tidy, NEW a \in Admins, Remove(a) \/ RemoveFails(a)
    PROVE  Tidy' /\ LooseStep
  <1> DEFINE name     == admin[a].name
             previous == admin[a].previous
  <1>1. /\ admin[a].pc = "remove" /\ setting = name /\ UNCHANGED <<setting, temps, named>>
        /\ previous \notin temps /\ setting \notin temps /\ files' \subseteq files
    BY DEF Remove, RemoveFails, Tidy, TidyHand, Inv, InHand
  <1>2. /\ Tidy' /\ Loose' = (files' \union temps') \ {setting'}
        /\ \A x \in files \union temps : x \in Names /\ (InUse(x) <=> HandHas(a, x))
    BY <1>1, LeavesTidy DEF Remove, RemoveFails
  <1>3. \A x : HandHas(a, x) <=> x = name \/ x = previous  BY <1>1 DEF HandHas
  <1>4. CASE Remove(a)
    <2>1. files' = files \ ({previous} \ {name}) /\ litter' = litter  BY <1>4 DEF Remove
    <2>2. Loose' \subseteq Loose  BY <1>1, <1>2, <1>3, <2>1, LeftOverIs
    <2> QED  BY <1>2, <2>1, <2>2 DEF LooseStep
  <1>5. CASE RemoveFails(a)
    <2>1. litter' = litter + 1  BY <1>5 DEF RemoveFails
    <2>2. Loose' \subseteq Loose \union {previous}  BY <1>1, <1>2, <1>3, LeftOverIs
    <2> QED  BY <1>2, <2>1, <2>2 DEF LooseStep
  <1> QED  BY <1>4, <1>5

(* A crash takes the mutex from one request at most, which had one file in hand
   that nothing else keeps: its new one, or, the setting written, the previous. *)
LEMMA CrashTidy ==
    ASSUME Inv, Tidy, Crash
    PROVE  Tidy' /\ LooseStep
  <1>1. None.pc = "idle" /\ None.name = Nothing /\ None.previous = Nothing  BY DEF None, Request
  <1>2. \A a \in Admins : admin'[a] = None  BY DEF Crash
  <1>3. UNCHANGED <<setting, files, temps, named>> /\ litter' = litter + 1  BY DEF Crash
  <1>4. files \subseteq Names /\ temps \subseteq Names  BY DEF Inv, TypeOK
  <1>5. Tidy'  BY <1>1, <1>2, <1>3 DEF Tidy, TidyHand
  <1>6. \E x : \A y \in Names : InUse(y) => y = x \/ y = setting
    <2>1. CASE \E a \in Admins : admin[a].pc \notin {"idle", "lock"}
      <3>1. PICK a \in Admins : admin[a].pc \notin {"idle", "lock"}  BY <2>1
      <3>2. \A b \in Admins \ {a} : admin[b].pc \in {"idle", "lock"}
        BY <3>1, HolderHolds DEF Inv, InHand
      <3>3. \A y \in Names, b \in Admins \ {a} : ~HandHas(b, y)
        BY <3>2, NamesDistinct DEF HandHas, Tidy, TidyHand
      <3>4. \A y \in Names : InUse(y) => HandHas(a, y)  BY <3>3 DEF InUse
      <3>5. CASE At(a, "remove")
        <4>1. setting = admin[a].name  BY <3>5 DEF Inv, InHand
        <4> QED  BY <3>4, <4>1 DEF HandHas
      <3>6. CASE ~At(a, "remove")  BY <3>4, <3>6 DEF HandHas
      <3> QED  BY <3>5, <3>6
    <2>2. CASE \A a \in Admins : admin[a].pc \in {"idle", "lock"}
      <3>1. \A y \in Names : ~InUse(y)
        BY <2>2, NamesDistinct DEF InUse, HandHas, Tidy, TidyHand
      <3> QED  BY <3>1
    <2> QED  BY <2>1, <2>2
  <1>7. PICK x : \A y \in Names : InUse(y) => y = x \/ y = setting  BY <1>6
  <1>8. setting \notin Loose'  BY <1>1, <1>2, <1>3 DEF Loose, ReadFailed
  <1>9. Loose' \subseteq Loose \union {x}  BY <1>3, <1>4, <1>7, <1>8 DEF Loose
  <1> QED  BY <1>3, <1>5, <1>9 DEF LooseStep

LEMMA OtherStepTidy ==
    ASSUME Tidy, UNCHANGED <<setting, files, temps, named, admin, litter>>
    PROVE  Tidy' /\ LooseStep
  <1>1. Tidy'  BY DEF Tidy, TidyHand
  <1>2. Loose' = Loose  BY DEF Loose, InUse, HandHas, ReadFailed
  <1> QED  BY <1>1, <1>2 DEF LooseStep

LEMMA TidyStep ==
    ASSUME Inv, Tidy, [Next]_vars
    PROVE  Tidy' /\ LooseStep
  <1>1. ASSUME NEW a \in Admins, Handle(a)
        PROVE  Tidy' /\ LooseStep
    BY <1>1, IdleStepTidy, RefuseTidy, CreateTempTidy, RenameTidy, RenameFailsTidy, ReadPreviousTidy,
       ReadFailsTidy, SetTidy, SetFailsTidy, RemoveTidy DEF Handle
  <1>2. CASE Crash  BY <1>2, CrashTidy
  <1>3. ASSUME UNCHANGED vars \/ \E v \in Visitors : View(v) \/ Stat(v)
        PROVE  Tidy' /\ LooseStep
    BY <1>3, OtherStepTidy DEF vars, View, Stat
  <1> QED  BY <1>1, <1>2, <1>3 DEF Next

(* Besides the image in use and those the requests have in hand, there are at most
   as many files as failures that leave one, whatever requests, failures and
   crashes come together (qrcode_upload.go:88, 117, 121, 138).                 *)
THEOREM LeftoversBounded == Spec => []LeftoversAreFailures
  <1>1. ASSUME Init
        PROVE  Tidy /\ Counted
    <2>1. None.pc = "idle" /\ None.name = Nothing /\ None.previous = Nothing  BY DEF None, Request
    <2>2. Tidy  BY <1>1, <2>1 DEF Init, Tidy, TidyHand
    <2>3. Loose = {} /\ litter = 0  BY <1>1 DEF Init, Loose
    <2> QED  BY <2>2, <2>3, FS_EmptySet DEF Counted
  <1>2. Inv /\ Tidy /\ Counted /\ [Next]_vars => Tidy' /\ Counted'  BY TidyStep, CountedStep
  <1>3. ASSUME Inv, Counted
        PROVE  LeftoversAreFailures
    <2> DEFINE Left == (files \union temps) \ ({setting} \union UnderWay)
    <2>1. Left \subseteq Loose  BY DEF Loose, InUse, HandHas, UnderWay
    <2>2. IsFiniteSet(Loose) /\ Cardinality(Loose) <= litter  BY <1>3 DEF Counted
    <2> HIDE DEF Left
    <2>3. Cardinality(Left) <= Cardinality(Loose) /\ Cardinality(Left) \in Nat /\ Cardinality(Loose) \in Nat
      BY <2>1, <2>2, FS_Subset, FS_CardinalityType
    <2>4. litter \in Nat  BY <1>3 DEF Inv, TypeOK
    <2> QED  BY <2>2, <2>3, <2>4 DEF Left, LeftoversAreFailures
  <1> QED  BY InvHolds, <1>1, <1>2, <1>3, PTL DEF Spec
===============================================================================
