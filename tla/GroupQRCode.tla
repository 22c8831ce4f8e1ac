----------------------------- MODULE GroupQRCode ------------------------------
(* The group QR code (httpapi/qrcode_upload.go): administrators upload and remove
   it behind one mutex, as a file in the upload directory and a setting in MySQL
   that names it, while visitors fetch the image without the mutex.            *)
EXTENDS Naturals, FiniteSets

CONSTANTS Admins, Visitors,
          Names,        \* newQRCodeUploadName: random, never given twice
          Nothing,      \* no setting, or an empty one
          Link,         \* a setting that names no uploaded file
          Nobody,
          \* Bounds of a run:
          MaxFaults, MaxCrashes

ASSUME NamesDistinct  == Nothing \notin Names /\ Link \notin Names
ASSUME NobodyDistinct == Nobody \notin Admins

Values == Names \union {Nothing, Link}

VARIABLES
    setting,    \* MySQL: settings, group_qrcode
    files,      \* the images in the upload directory
    temps,      \* the temporary files there, by the name they are to get
    named,      \* the names given so far
    mutex,      \* qrcodeUploadMu
    admin,      \* the request of each administrator
    visitor,    \* the image request of each visitor
    unsure,     \* history: values written by a write that was answered with an error
    litter,     \* history: faults and crashes after which a file may be left over
    spent       \* what the run has spent of its bounds

vars == <<setting, files, temps, named, mutex, admin, visitor, unsure, litter, spent>>

Stages == {"idle", "lock", "check", "rename", "read", "set", "remove"}
Requests == [pc : Stages, kind : {"upload", "removal"}, name : Values, previous : Values]
Request(kind) == [pc |-> "lock", kind |-> kind, name |-> Nothing, previous |-> Nothing]
None == [Request("upload") EXCEPT !.pc = "idle"]

(* "stat": has read the setting; "denied": and then found no such file.
   moved: history, whether the setting changed since it was read. *)
Views == [pc : {"idle", "stat", "served", "denied"}, name : Values, moved : BOOLEAN]
NoView == [pc |-> "idle", name |-> Nothing, moved |-> FALSE]

Become(a, request) == admin' = [admin EXCEPT ![a] = request]
GoTo(a, stage)     == Become(a, [admin[a] EXCEPT !.pc = stage])
Leave(a)           == Become(a, None) /\ mutex' = Nobody

At(a, stage) == admin[a].pc = stage
Fault == spent.faults < MaxFaults /\ spent' = [spent EXCEPT !.faults = @ + 1]

Init ==
    /\ setting \in {Nothing, Link}
    /\ files = {} /\ temps = {} /\ named = {}
    /\ mutex = Nobody
    /\ admin = [a \in Admins |-> None]
    /\ visitor = [v \in Visitors |-> NoView]
    /\ unsure = {} /\ litter = 0
    /\ spent = [faults |-> 0, crashes |-> 0]

-----------------------------------------------------------------------------
(* adminSetGroupQRCode and adminRemoveGroupQRCode. *)
Arrive(a, kind) ==
    /\ At(a, "idle")
    /\ Become(a, Request(kind))
    /\ UNCHANGED <<setting, files, temps, named, mutex, visitor, unsure, litter, spent>>

(* Mutant: without the mutex. *)
LockFree(a) ==
    /\ At(a, "lock")
    /\ GoTo(a, IF admin[a].kind = "upload" THEN "check" ELSE "read")
    /\ UNCHANGED <<setting, files, temps, named, mutex, visitor, unsure, litter, spent>>

Lock(a) ==
    /\ At(a, "lock") /\ mutex = Nobody
    /\ mutex' = a
    /\ GoTo(a, IF admin[a].kind = "upload" THEN "check" ELSE "read")
    /\ UNCHANGED <<setting, files, temps, named, visitor, unsure, litter, spent>>

(* No image, too large, neither PNG nor JPEG, or bad dimensions. *)
Refuse(a) ==
    /\ At(a, "check")
    /\ Leave(a)
    /\ UNCHANGED <<setting, files, temps, named, visitor, unsure, litter, spent>>

(* Mutant: the setting names the file before it is there. *)
CreateAndSet(a, name) ==
    /\ At(a, "check") /\ name \notin named
    /\ named' = named \union {name}
    /\ temps' = temps \union {name}
    /\ setting' = name
    /\ Become(a, [admin[a] EXCEPT !.pc = "rename", !.name = name])
    /\ UNCHANGED <<files, mutex, visitor, unsure, litter, spent>>

CreateTemp(a, name) ==
    /\ At(a, "check") /\ name \notin named
    /\ named' = named \union {name}
    /\ temps' = temps \union {name}
    /\ Become(a, [admin[a] EXCEPT !.pc = "rename", !.name = name])
    /\ UNCHANGED <<setting, files, mutex, visitor, unsure, litter, spent>>

(* The image is written to the temporary file, synced, and renamed. *)
Rename(a) ==
    /\ At(a, "rename")
    /\ temps' = temps \ {admin[a].name}
    /\ files' = files \union {admin[a].name}
    /\ GoTo(a, "read")
    /\ UNCHANGED <<setting, named, mutex, visitor, unsure, litter, spent>>

(* The directory, the write or the rename fails; the temporary file is removed,
   unless that fails too, of which nobody is told. *)
RenameFails(a) ==
    /\ At(a, "rename")
    /\ Fault
    /\ \/ temps' = temps \ {admin[a].name} /\ UNCHANGED litter
       \/ UNCHANGED temps /\ litter' = litter + 1
    /\ Leave(a)
    /\ UNCHANGED <<setting, files, named, visitor, unsure>>

(* Mutant: the previous file goes at once. *)
ReadAndRemove(a) ==
    /\ At(a, "read")
    /\ Become(a, [admin[a] EXCEPT !.pc = "set", !.previous = setting])
    /\ files' = files \ {setting}
    /\ UNCHANGED <<setting, temps, named, mutex, visitor, unsure, litter, spent>>

ReadPrevious(a) ==
    /\ At(a, "read")
    /\ Become(a, [admin[a] EXCEPT !.pc = "set", !.previous = setting])
    /\ UNCHANGED <<setting, files, temps, named, mutex, visitor, unsure, litter, spent>>

(* An upload goes on without a previous value, which leaves the previous file. *)
ReadFails(a) ==
    /\ At(a, "read")
    /\ Fault
    /\ IF admin[a].kind = "upload"
           THEN GoTo(a, "set") /\ litter' = litter + 1 /\ UNCHANGED mutex
           ELSE Leave(a) /\ UNCHANGED litter
    /\ UNCHANGED <<setting, files, temps, named, visitor, unsure>>

(* AdminSetGroupQRCode: a visitor that has read the setting may now miss its file. *)
Write(a) ==
    /\ setting' = admin[a].name
    /\ visitor' = [v \in Visitors |->
                      [visitor[v] EXCEPT !.moved = @ \/ setting # admin[a].name]]

Set(a) ==
    /\ At(a, "set")
    /\ Write(a)
    /\ GoTo(a, "remove")
    /\ UNCHANGED <<files, temps, named, mutex, unsure, litter, spent>>

(* What a failed write leaves: an upload removes its file. *)
Undo(a) == files' = files \ {admin[a].name}

(* The write fails, or it was done and its answer is lost. The removal of the
   upload's file may fail too. *)
SetFails(a) ==
    /\ At(a, "set")
    /\ Fault
    /\ \/ Undo(a) /\ UNCHANGED <<setting, visitor, unsure, litter>>
       \/ /\ admin[a].kind = "upload" /\ litter' = litter + 1
          /\ UNCHANGED <<setting, files, visitor, unsure>>
       \/ /\ Write(a) /\ unsure' = unsure \union {admin[a].name} /\ litter' = litter + 1
          /\ Undo(a) \/ UNCHANGED files
    /\ Leave(a)
    /\ UNCHANGED <<temps, named>>

(* removeUploadedQRCode: only a name of an uploaded file, and not the new one. *)
Remove(a) ==
    /\ At(a, "remove")
    /\ files' = files \ ({admin[a].previous} \ {admin[a].name})
    /\ Leave(a)
    /\ UNCHANGED <<setting, temps, named, visitor, unsure, litter, spent>>

(* os.Remove fails; nobody is told. *)
RemoveFails(a) ==
    /\ At(a, "remove")
    /\ Fault
    /\ litter' = litter + 1
    /\ Leave(a)
    /\ UNCHANGED <<setting, files, temps, named, visitor, unsure>>

(* The server dies and starts again; the directory is a volume that stays. *)
Crash ==
    /\ spent.crashes < MaxCrashes
    /\ spent' = [spent EXCEPT !.crashes = @ + 1]
    /\ litter' = litter + 1
    /\ admin' = [a \in Admins |-> None] /\ mutex' = Nobody
    /\ visitor' = [v \in Visitors |-> NoView]
    /\ UNCHANGED <<setting, files, temps, named, unsure>>

-----------------------------------------------------------------------------
(* groupQRCodeImage. *)
View(v) ==
    /\ visitor[v].pc # "stat"
    /\ visitor' = [visitor EXCEPT ![v] = [pc |-> "stat", name |-> setting, moved |-> FALSE]]
    /\ UNCHANGED <<setting, files, temps, named, mutex, admin, unsure, litter, spent>>

Stat(v) ==
    /\ visitor[v].pc = "stat"
    /\ visitor' = [visitor EXCEPT ![v].pc = IF visitor[v].name \in files THEN "served" ELSE "denied"]
    /\ UNCHANGED <<setting, files, temps, named, mutex, admin, unsure, litter, spent>>

-----------------------------------------------------------------------------
Handle(a) ==
    \/ \E kind \in {"upload", "removal"} : Arrive(a, kind)
    \/ Lock(a) \/ Refuse(a) \/ (\E name \in Names : CreateTemp(a, name)) \/ Rename(a)
    \/ ReadPrevious(a) \/ Set(a) \/ Remove(a)
    \/ RenameFails(a) \/ ReadFails(a) \/ SetFails(a) \/ RemoveFails(a)

Next ==
    \/ \E a \in Admins : Handle(a)
    \/ \E v \in Visitors : View(v) \/ Stat(v)
    \/ Crash

Spec == Init /\ [][Next]_vars

-----------------------------------------------------------------------------
TypeOK ==
    /\ setting \in Values
    /\ files \subseteq Names /\ temps \subseteq Names /\ named \subseteq Names
    /\ mutex \in Admins \union {Nobody}
    /\ admin \in [Admins -> Requests]
    /\ visitor \in [Visitors -> Views]
    /\ unsure \subseteq Values
    /\ litter \in Nat
    /\ spent \in [faults : Nat, crashes : Nat]

(* The setting never names a file that is not there, at any step of concurrent
   uploads and removals and after any crash, but for a name whose writing was
   answered with an error although it was done (qrcode_upload.go:109-121). *)
SettingHasFile == setting \in Names => setting \in files \/ setting \in unsure

(* A visitor whose image was not found read the setting before it changed, or was
   told of no uploaded image (:143-161), or read a name whose writing was answered
   with an error although it was done; nobody else is denied. *)
DeniedWasReplaced ==
    \A v \in Visitors :
        visitor[v].pc = "denied" /\ visitor[v].name \in Names =>
            visitor[v].moved \/ visitor[v].name \in unsure

UnderWay == {admin[a].name : a \in Admins} \union
            {admin[a].previous : a \in {b \in Admins : At(b, "remove")}}

(* Files pile up only by failures: besides the image in use and the ones a request
   has in hand, at most one for each failure (:88, 117, 121, 138). *)
LeftoversAreFailures == Cardinality((files \union temps) \ ({setting} \union UnderWay)) <= litter
===============================================================================
