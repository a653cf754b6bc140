----------------------- MODULE RuntimeResources_proofs -----------------------
(***************************************************************************)
(* What JNI_OnLoad() leaves, whichever of its calls fail; and what an      *)
(* Activity's resources come to, for any number of Activities: one         *)
(* mechanism, roles that resolve, no descriptor left open, no empty table, *)
(* whichever calls throw and whatever JNI_OnLoad() did before.             *)
(***************************************************************************)
EXTENDS RuntimeResources, SequenceTheorems, TLAPS

\* The calls that throw, by the names that faults gives them.
Calls == {TableCalls[i] : i \in 1 .. 6} \cup {"MemfdCreate", "Close", "RemoveLoaders"}

ResourcesTyped ==
    /\ created \in 0 .. MaxActivities
    /\ step \in {"idle", "Read", "Table", "Close", "Verify"}
    /\ tableCall \in 1 .. 6 /\ throwing \in BOOLEAN
    /\ attached \subseteq Activities
    /\ context \in [Activities -> {"none", "activity", "override"}]
    /\ faults \in [Activities -> SUBSET Calls]

\* The captured buffer is whole for every reader, and a table once written is
\* not empty.
BlobInv ==
    /\ drained = FALSE
    /\ step \in {"idle", "Read"} => tableCall = 1
    /\ step = "Read" => memfd = "closed"
    /\ step = "Table" => bytes = "whole"
    /\ TableNeverEmpty

\* What is attached at each step of the Activity being created.
AttachInv ==
    /\ step # "idle" => created \in Activities /\ context[created] = "none"
    /\ step \in {"Read", "Table"} => created \notin attached /\ throwing = FALSE
    /\ step = "Close" => (created \in attached <=> throwing = FALSE)
    /\ step = "Verify" => created \in attached /\ throwing = FALSE
    /\ step = "idle" => throwing = FALSE
    /\ \A a \in Activities : a > created => context[a] = "none" /\ a \notin attached

ResourcesInv == ResourcesTyped /\ BlobInv /\ MemfdReleased /\ AttachInv /\ OneMechanism

LEMMA TableCallsFacts ==
    /\ Len(TableCalls) = 6 /\ TableCalls[1] = "Write"
    /\ \A i \in 2 .. 6 : TableCalls[i] # "Write"
    /\ \A i \in 1 .. 5 : TableCalls[i] # "AddLoaders"
    /\ TableCalls[6] = "AddLoaders"
  <1>1. /\ Len(TableCalls) = 6 /\ TableCalls[1] = "Write" /\ TableCalls[2] = "Lseek"
        /\ TableCalls[3] = "Dup" /\ TableCalls[4] = "LoadFromTable"
        /\ TableCalls[5] = "AddProvider" /\ TableCalls[6] = "AddLoaders"
    BY DEF TableCalls
  <1>2. \A i \in 1 .. 6 : i = 1 \/ i = 2 \/ i = 3 \/ i = 4 \/ i = 5 \/ i = 6
    OBVIOUS
  <1> QED
    BY <1>1, <1>2

LEMMA InitResources == ResourcesInit => ResourcesInv
  <1> SUFFICES ASSUME ResourcesInit PROVE ResourcesInv
    OBVIOUS
  <1>1. ResourcesTyped
    <2>1. /\ context \in [Activities -> {"none", "activity", "override"}]
          /\ faults \in [Activities -> SUBSET Calls]
      BY DEF ResourcesInit
    <2>2. created \in 0 .. MaxActivities /\ tableCall \in 1 .. 6
      BY ResourcesAssumption DEF ResourcesInit
    <2>3. throwing \in BOOLEAN
      BY DEF ResourcesInit
    <2>4. step \in {"idle", "Read", "Table", "Close", "Verify"} /\ attached \subseteq Activities
      BY DEF ResourcesInit
    <2> QED
      BY <2>1, <2>2, <2>3, <2>4 DEF ResourcesTyped
  <1>2. BlobInv /\ MemfdReleased
    BY DEF ResourcesInit, BlobInv, TableNeverEmpty, MemfdReleased
  <1>3. AttachInv
    BY DEF ResourcesInit, AttachInv
  <1>4. OneMechanism
    BY DEF ResourcesInit, OneMechanism, Done
  <1> QED
    BY <1>1, <1>2, <1>3, <1>4 DEF ResourcesInv

\* What returning the Context c leaves of the invariant, if the table is attached
\* exactly when c is the Activity itself or nothing more could be undone.
LEMMA ResultKeepsInv ==
  ASSUME ResourcesInv, step # "idle",
         NEW c \in {"activity", "override"}, Result(c),
         UNCHANGED <<created, drained>>, memfd' = "closed",
         attached' \subseteq Activities, faults' \in [Activities -> SUBSET Calls],
         \A a \in Activities \ {created} :
            (a \in attached' <=> a \in attached) /\ faults'[a] = faults[a],
         faults'[created] \cap {"Close", "RemoveLoaders"} = {} =>
            (c = "activity" <=> created \in attached')
  PROVE  ResourcesInv'
  <1>1. /\ created \in Activities /\ step' = "idle" /\ tableCall' = 1 /\ throwing' = FALSE
        /\ context \in [Activities -> {"none", "activity", "override"}]
        /\ context' = [context EXCEPT ![created] = c] /\ created \in 0 .. MaxActivities
    BY DEF ResourcesInv, ResourcesTyped, AttachInv, Result
  <1>2. context'[created] = c /\ \A a \in Activities \ {created} : context'[a] = context[a]
    BY <1>1
  <1>3. context' \in [Activities -> {"none", "activity", "override"}]
    BY <1>1
  <1>4. ResourcesTyped'
    <2>1. created' \in 0 .. MaxActivities /\ tableCall' \in 1 .. 6
      BY <1>1
    <2>2. throwing' \in BOOLEAN
      BY <1>1
    <2>3. step' \in {"idle", "Read", "Table", "Close", "Verify"}
      BY <1>1
    <2> QED
      BY <1>3, <2>1, <2>2, <2>3 DEF ResourcesTyped
  <1>5. BlobInv' /\ MemfdReleased'
    BY <1>1 DEF ResourcesInv, BlobInv, TableNeverEmpty, MemfdReleased
  <1>6. AttachInv'
    <2>1. \A a \in Activities : a > created => a # created
      BY <1>1 DEF Activities
    <2> QED
      BY <1>1, <1>2, <2>1 DEF ResourcesInv, AttachInv
  <1>7. OneMechanism'
    <2> SUFFICES ASSUME NEW a \in Activities, context'[a] # "none",
                        faults'[a] \cap {"Close", "RemoveLoaders"} = {}
                 PROVE  context'[a] = "activity" <=> a \in attached'
      BY DEF OneMechanism, Done, Activities
    <2>1. CASE a = created
      BY <1>2, <2>1
    <2>2. CASE a # created
      BY <1>2, <2>2 DEF ResourcesInv, OneMechanism, Done
    <2> QED
      BY <2>1, <2>2
  <1> QED
    BY <1>4, <1>5, <1>6, <1>7 DEF ResourcesInv

\* A fault noted of the Activity being created.
LEMMA ThrewFacts ==
  ASSUME ResourcesInv, step # "idle", NEW f \in Calls, Threw(f)
  PROVE  /\ faults' \in [Activities -> SUBSET Calls] /\ f \in faults'[created]
         /\ \A a \in Activities \ {created} : faults'[a] = faults[a]
  <1>1. created \in Activities /\ faults \in [Activities -> SUBSET Calls]
    BY DEF ResourcesInv, ResourcesTyped, AttachInv
  <1> QED
    BY <1>1 DEF Threw

-----------------------------------------------------------------------------
LEMMA CreatedStep == ASSUME ResourcesInv, OnActivityCreated PROVE ResourcesInv'
  <1>1. /\ step = "idle" /\ created' = created + 1 /\ created < MaxActivities
        /\ UNCHANGED <<tableCall, throwing, drained, bytes, memfd, attached, faults>>
    BY DEF OnActivityCreated
  <1>2. created' \in Activities /\ created' \notin attached /\ context[created'] = "none"
    BY <1>1, ResourcesAssumption
    DEF ResourcesInv, ResourcesTyped, AttachInv, Activities
  <1>3. memfd' = "closed" /\ throwing' = FALSE
    BY <1>1 DEF ResourcesInv, MemfdReleased, AttachInv
  <1>4. CASE step' = "Read" /\ context' = context
    BY <1>1, <1>2, <1>3, <1>4, ResourcesAssumption
    DEF ResourcesInv, ResourcesTyped, BlobInv, TableNeverEmpty, MemfdReleased,
        AttachInv, OneMechanism, Done, Activities
  <1>5. CASE step' = "idle" /\ context' = [context EXCEPT ![created + 1] = "override"]
    BY <1>1, <1>2, <1>3, <1>5, ResourcesAssumption
    DEF ResourcesInv, ResourcesTyped, BlobInv, TableNeverEmpty, MemfdReleased,
        AttachInv, OneMechanism, Done, Activities
  <1> QED
    BY <1>1, <1>4, <1>5 DEF OnActivityCreated

LEMMA ReadStep == ASSUME ResourcesInv, Read PROVE ResourcesInv'
  <1>1. step = "Read" /\ bytes' = "whole" /\ UNCHANGED <<created, attached, drained>>
    BY DEF Read, CopyBlob, ResourcesInv, BlobInv
  <1>2. created \in Activities /\ created \notin attached
    BY <1>1 DEF ResourcesInv, AttachInv
  <1>3. CASE step' = "Table" /\ UNCHANGED <<tableCall, throwing, context, faults>>
    BY <1>1, <1>2, <1>3
    DEF ResourcesInv, ResourcesTyped, BlobInv, TableNeverEmpty, MemfdReleased,
        AttachInv, OneMechanism, Done
  <1>4. CASE Result("override") /\ Threw("MemfdCreate") /\ UNCHANGED memfd
    <2>1. memfd' = "closed" /\ "MemfdCreate" \in Calls
      BY <1>1, <1>4 DEF ResourcesInv, BlobInv, Calls
    <2>2. attached \subseteq Activities
      BY DEF ResourcesInv, ResourcesTyped
    <2> QED
      BY <1>1, <1>2, <1>4, <2>1, <2>2, ResultKeepsInv, ThrewFacts
  <1> QED
    BY <1>3, <1>4 DEF Read

\* The table is handed over whole or in part, and attached by the last call.
LEMMA TableReturnsStep == ASSUME ResourcesInv, TableCallReturns PROVE ResourcesInv'
  <1>1. /\ step = "Table" /\ created \in Activities /\ created \notin attached
        /\ throwing = FALSE /\ bytes = "whole" /\ tableCall \in 1 .. 6
        /\ context[created] = "none"
    BY DEF TableCallReturns, ResourcesInv, ResourcesTyped, BlobInv, AttachInv
  <1>2. UNCHANGED <<created, throwing, drained, bytes, context, faults>>
    BY DEF TableCallReturns
  <1>3. memfd' # "empty"
    <2>1. CASE tableCall = 1
      BY <1>1, <2>1, TableCallsFacts DEF TableCallReturns, Written
    <2>2. CASE tableCall # 1
      BY <1>1, <2>2, TableCallsFacts
      DEF TableCallReturns, ResourcesInv, BlobInv, TableNeverEmpty
    <2> QED
      BY <2>1, <2>2
  <1>4. CASE tableCall = 6
    <2>1. step' = "Close" /\ tableCall' = 6 /\ attached' = attached \cup {created}
      BY <1>4, TableCallsFacts DEF TableCallReturns
    <2> QED
      BY <1>1, <1>2, <2>1
      DEF ResourcesInv, ResourcesTyped, BlobInv, TableNeverEmpty, MemfdReleased,
          AttachInv, OneMechanism, Done
  <1>5. CASE tableCall # 6
    <2>1. step' = "Table" /\ tableCall' = tableCall + 1 /\ attached' = attached
      BY <1>1, <1>5, TableCallsFacts DEF TableCallReturns
    <2> QED
      BY <1>1, <1>2, <1>3, <1>5, <2>1
      DEF ResourcesInv, ResourcesTyped, BlobInv, TableNeverEmpty, MemfdReleased,
          AttachInv, OneMechanism, Done
  <1> QED
    BY <1>4, <1>5

LEMMA TableThrowsStep == ASSUME ResourcesInv, TableCallThrows PROVE ResourcesInv'
  <1>1. /\ step = "Table" /\ created \in Activities /\ created \notin attached
        /\ tableCall \in 1 .. 6 /\ context[created] = "none"
    BY DEF TableCallThrows, ResourcesInv, ResourcesTyped, AttachInv
  <1>2. TableCalls[tableCall] \in Calls
    BY <1>1 DEF Calls
  <1>3. /\ step' = "Close" /\ throwing' = TRUE
        /\ faults' = [faults EXCEPT ![created] = @ \cup {TableCalls[tableCall]}]
        /\ UNCHANGED <<created, tableCall, drained, bytes, memfd, attached, context>>
    BY DEF TableCallThrows, Threw
  <1>4. faults' \in [Activities -> SUBSET Calls]
    BY <1>1, <1>2, <1>3 DEF ResourcesInv, ResourcesTyped
  <1> QED
    BY <1>1, <1>3, <1>4
    DEF ResourcesInv, ResourcesTyped, BlobInv, TableNeverEmpty, MemfdReleased,
        AttachInv, OneMechanism, Done

\* The finally block: what follows it depends on what went before.
LEMMA CloseStep == ASSUME ResourcesInv, CloseMemfd PROVE ResourcesInv'
  <1>1. /\ step = "Close" /\ created \in Activities /\ memfd' = "closed"
        /\ (created \in attached <=> throwing = FALSE) /\ throwing \in BOOLEAN
        /\ UNCHANGED <<created, drained, bytes, attached>>
    BY DEF CloseMemfd, ResourcesInv, ResourcesTyped, AttachInv
  <1>2. CASE /\ ~throwing /\ step' = "Verify"
             /\ UNCHANGED <<tableCall, throwing, context, faults>>
    BY <1>1, <1>2
    DEF ResourcesInv, ResourcesTyped, BlobInv, TableNeverEmpty, MemfdReleased,
        AttachInv, OneMechanism, Done
  <1>3. attached \subseteq Activities /\ faults \in [Activities -> SUBSET Calls]
    BY DEF ResourcesInv, ResourcesTyped
  <1>4. CASE throwing /\ Result("override") /\ UNCHANGED faults
    BY <1>1, <1>3, <1>4, ResultKeepsInv
  <1>5. CASE Result("override") /\ Threw("Close")
    <2>1. "Close" \in Calls
      BY DEF Calls
    <2> QED
      BY <1>1, <1>3, <1>5, <2>1, ResultKeepsInv, ThrewFacts
  <1> QED
    BY <1>2, <1>4, <1>5 DEF CloseMemfd

LEMMA VerifyStep == ASSUME ResourcesInv, Verify PROVE ResourcesInv'
  <1>1. /\ step = "Verify" /\ created \in Activities /\ created \in attached
        /\ memfd' = "closed" /\ UNCHANGED <<created, drained, bytes>>
    BY DEF Verify, ResourcesInv, AttachInv, MemfdReleased
  <1>2. attached \subseteq Activities /\ faults \in [Activities -> SUBSET Calls]
    BY DEF ResourcesInv, ResourcesTyped
  <1>3. CASE Result("activity") /\ UNCHANGED <<attached, faults>>
    BY <1>1, <1>2, <1>3, ResultKeepsInv
  <1>4. CASE Result("override") /\ attached' = attached \ {created} /\ UNCHANGED faults
    BY <1>1, <1>2, <1>4, ResultKeepsInv
  <1>5. CASE Result("override") /\ Threw("RemoveLoaders") /\ UNCHANGED attached
    <2>1. "RemoveLoaders" \in Calls
      BY DEF Calls
    <2> QED
      BY <1>1, <1>2, <1>5, <2>1, ResultKeepsInv, ThrewFacts
  <1> QED
    BY <1>3, <1>4, <1>5 DEF Verify, UndoLoader

LEMMA NextResources ==
  ResourcesInv /\ [ResourcesNext]_<<vars, resourceVars>> => ResourcesInv'
  <1>1. ASSUME ResourcesInv, UNCHANGED resourceVars PROVE ResourcesInv'
    BY <1>1
    DEF resourceVars, ResourcesInv, ResourcesTyped, BlobInv, TableNeverEmpty,
        MemfdReleased, AttachInv, OneMechanism, Done
  <1> QED
    BY <1>1, CreatedStep, ReadStep, TableReturnsStep, TableThrowsStep, CloseStep,
       VerifyStep DEF ResourcesNext

-----------------------------------------------------------------------------
\* The stages of JNI_OnLoad() as a sequence.

\* Where the elements of a (m of them) and d (n of them) are in a \o d = q.
Joins(q, a, m, d, n) ==
    /\ \A i \in 1 .. m : q[i] = a[i]
    /\ \A i \in 1 .. n : q[m + i] = d[i]

LEMMA Joined ==
    ASSUME NEW S, NEW a \in Seq(S), NEW d \in Seq(S)
    PROVE  /\ a \o d \in Seq(S) /\ Len(a \o d) = Len(a) + Len(d)
           /\ Joins(a \o d, a, Len(a), d, Len(d))
  <1> DEFINE q == a \o d
  <1>1. /\ q \in Seq(S) /\ Len(q) = Len(a) + Len(d)
        /\ \A i \in 1 .. Len(a) + Len(d) :
              q[i] = IF i <= Len(a) THEN a[i] ELSE d[i - Len(a)]
    BY ConcatProperties, Zenon
  <1>2. Len(a) \in Nat /\ Len(d) \in Nat
    OBVIOUS
  <1> HIDE DEF q
  <1>3. \A i \in 1 .. Len(a) : q[i] = a[i]
    BY <1>1, <1>2
  <1>4. \A i \in 1 .. Len(d) : q[Len(a) + i] = d[i]
    <2> TAKE i \in 1 .. Len(d)
    <2>1. /\ Len(a) + i \in 1 .. Len(a) + Len(d) /\ ~(Len(a) + i <= Len(a))
          /\ (Len(a) + i) - Len(a) = i
      BY <1>2
    <2> QED
      BY <1>1, <2>1
  <1>5. Joins(q, a, Len(a), d, Len(d))
    BY <1>3, <1>4 DEF Joins
  <1> QED
    BY <1>1, <1>5, Zenon DEF q

\* The sequences of JNI calls, none of them empty.
NonEmpty(S) == Seq(S) \ {<<>>}

LEMMA TuplesNonEmpty ==
    ASSUME NEW S
    PROVE  /\ \A x \in S : <<x>> \in NonEmpty(S)
           /\ \A x, y \in S : <<x, y>> \in NonEmpty(S)
           /\ \A x, y, z \in S : <<x, y, z>> \in NonEmpty(S)
           /\ \A u, v, w, x, y, z \in S : <<u, v, w, x, y, z>> \in NonEmpty(S)
  BY DEF NonEmpty

LEMMA CatNonEmpty ==
    ASSUME NEW S, NEW s \in NonEmpty(S), NEW t \in NonEmpty(S) PROVE s \o t \in NonEmpty(S)
  <1>1. s \in Seq(S) /\ t \in Seq(S) /\ Len(s) \in Nat /\ Len(t) \in Nat /\ Len(s) > 0
    BY DEF NonEmpty
  <1>2. s \o t \in Seq(S) /\ Len(s \o t) = Len(s) + Len(t)
    BY <1>1, ConcatProperties, Zenon
  <1>3. Len(s \o t) > 0
    BY <1>1, <1>2
  <1> QED
    BY <1>2, <1>3 DEF NonEmpty

JniCallNames ==
    {"FindClass", "GetEnv", "verify_blob", "NewDirectByteBuffer", "NewGlobalRef",
     "RegisterNatives", "GetStaticMethodID", "CallStaticVoidMethod", "NewStringUTF",
     "GetStringUTFChars", "CallStaticObjectMethod", "GetObjectClass", "GetMethodID",
     "CallObjectMethod", "NewObject"}
CallLists == NonEmpty(JniCallNames)

LEMMA CallListsAre ==
    /\ <<"FindClass">> \in CallLists /\ <<"NewDirectByteBuffer">> \in CallLists
    /\ <<"NewGlobalRef">> \in CallLists /\ <<"GetEnv">> \in CallLists
    /\ <<"verify_blob">> \in CallLists /\ <<"RegisterNatives">> \in CallLists
    /\ <<"GetStaticMethodID">> \in CallLists /\ <<"CallStaticVoidMethod">> \in CallLists
    /\ <<"verify_blob", "NewDirectByteBuffer">> \in CallLists
    /\ <<"FindClass", "GetMethodID", "NewObject">> \in CallLists
    /\ StaticCall \in CallLists /\ InstanceCall \in CallLists
    /\ UpgradeCalls \in CallLists /\ FilesDirCalls \in CallLists
    /\ <<"NewStringUTF">> \o InstanceCall \in CallLists
  <1>0. /\ "FindClass" \in JniCallNames /\ "GetEnv" \in JniCallNames
        /\ "verify_blob" \in JniCallNames /\ "NewDirectByteBuffer" \in JniCallNames
        /\ "NewGlobalRef" \in JniCallNames /\ "RegisterNatives" \in JniCallNames
        /\ "GetStaticMethodID" \in JniCallNames /\ "CallStaticVoidMethod" \in JniCallNames
        /\ "NewStringUTF" \in JniCallNames /\ "GetStringUTFChars" \in JniCallNames
        /\ "CallStaticObjectMethod" \in JniCallNames /\ "GetObjectClass" \in JniCallNames
        /\ "GetMethodID" \in JniCallNames /\ "CallObjectMethod" \in JniCallNames
        /\ "NewObject" \in JniCallNames
    BY DEF JniCallNames
  <1>1. /\ \A x \in JniCallNames : <<x>> \in CallLists
        /\ \A x, y \in JniCallNames : <<x, y>> \in CallLists
        /\ \A x, y, z \in JniCallNames : <<x, y, z>> \in CallLists
        /\ \A u, v, w, x, y, z \in JniCallNames : <<u, v, w, x, y, z>> \in CallLists
    BY TuplesNonEmpty, Zenon DEF CallLists
  <1>2. /\ InstanceCall \in CallLists /\ <<"NewStringUTF">> \in CallLists
        /\ <<"GetStringUTFChars">> \in CallLists
    BY <1>0, <1>1, Zenon DEF InstanceCall
  <1>3. <<"NewStringUTF">> \o InstanceCall \in CallLists
    BY <1>2, CatNonEmpty, Zenon DEF CallLists
  <1>4. FilesDirCalls \in CallLists
    BY <1>2, CatNonEmpty, Zenon DEF CallLists, FilesDirCalls
  <1>5. /\ <<"FindClass">> \in CallLists /\ <<"NewDirectByteBuffer">> \in CallLists
        /\ <<"NewGlobalRef">> \in CallLists /\ <<"GetEnv">> \in CallLists
        /\ <<"verify_blob">> \in CallLists /\ <<"RegisterNatives">> \in CallLists
        /\ <<"GetStaticMethodID">> \in CallLists /\ <<"CallStaticVoidMethod">> \in CallLists
    BY <1>0, <1>1, Zenon
  <1>6. /\ <<"verify_blob", "NewDirectByteBuffer">> \in CallLists /\ StaticCall \in CallLists
        /\ <<"FindClass", "GetMethodID", "NewObject">> \in CallLists
    BY <1>0, <1>1, Zenon DEF StaticCall
  <1>7. UpgradeCalls \in CallLists
    BY <1>0, <1>1, Zenon DEF UpgradeCalls
  <1> QED
    BY <1>2, <1>3, <1>4, <1>5, <1>6, <1>7

StageNameSet ==
    {"ActivityThread", "Application", "ClassLoader", "DexBuffer", "DexLoader",
     "UpgradeBuffer", "Upgrade", "EntryClass", "Promote", "GetEnv", "VerifyDex",
     "Resources", "Natives", "FilesDir", "FindInstall", "Install"}
StageType == [name : StageNameSet, calls : CallLists]

LEMMA NineInSeq ==
    ASSUME NEW S, NEW x1 \in S, NEW x2 \in S, NEW x3 \in S, NEW x4 \in S, NEW x5 \in S,
           NEW x6 \in S, NEW x7 \in S, NEW x8 \in S, NEW x9 \in S
    PROVE  <<x1, x2, x3, x4, x5, x6, x7, x8, x9>> \in Seq(S)
  OBVIOUS

LEMMA DexTyped == DexStages \in Seq(StageType)
  <1>1. \A n \in StageNameSet, c \in CallLists : [name |-> n, calls |-> c] \in StageType
    BY DEF StageType
  <1>2. /\ [name |-> "ActivityThread", calls |-> <<"FindClass">>] \in StageType
        /\ [name |-> "Application",    calls |-> StaticCall] \in StageType
        /\ [name |-> "ClassLoader",    calls |-> InstanceCall] \in StageType
        /\ [name |-> "DexBuffer",      calls |-> <<"NewDirectByteBuffer">>] \in StageType
        /\ [name |-> "DexLoader",
            calls |-> <<"FindClass", "GetMethodID", "NewObject">>] \in StageType
        /\ [name |-> "UpgradeBuffer",  calls |-> <<"NewDirectByteBuffer">>] \in StageType
        /\ [name |-> "Upgrade",        calls |-> UpgradeCalls] \in StageType
        /\ [name |-> "EntryClass",
            calls |-> <<"NewStringUTF">> \o InstanceCall] \in StageType
        /\ [name |-> "Promote",        calls |-> <<"NewGlobalRef">>] \in StageType
    BY <1>1, CallListsAre, Zenon DEF StageNameSet
  <1> QED
    BY <1>2, NineInSeq, Zenon DEF DexStages

\* The stages before and after those of load_class_from_dex().
First == << [name |-> "GetEnv",      calls |-> <<"GetEnv">>],
            [name |-> "VerifyDex",   calls |-> <<"verify_blob">>] >>
Last == << [name |-> "Resources",   calls |-> <<"verify_blob", "NewDirectByteBuffer">>],
           [name |-> "Natives",     calls |-> <<"RegisterNatives">>],
           [name |-> "FilesDir",    calls |-> FilesDirCalls],
           [name |-> "FindInstall", calls |-> <<"GetStaticMethodID">>],
           [name |-> "Install",     calls |-> <<"CallStaticVoidMethod">>] >>
Front == First \o DexStages

LEMMA EndsTyped == First \in Seq(StageType) /\ Last \in Seq(StageType)
  <1>1. \A n \in StageNameSet, c \in CallLists : [name |-> n, calls |-> c] \in StageType
    BY DEF StageType
  <1>2. /\ [name |-> "Resources",
            calls |-> <<"verify_blob", "NewDirectByteBuffer">>] \in StageType
        /\ [name |-> "Natives",     calls |-> <<"RegisterNatives">>] \in StageType
        /\ [name |-> "FilesDir",    calls |-> FilesDirCalls] \in StageType
        /\ [name |-> "FindInstall", calls |-> <<"GetStaticMethodID">>] \in StageType
        /\ [name |-> "Install",     calls |-> <<"CallStaticVoidMethod">>] \in StageType
        /\ [name |-> "GetEnv",      calls |-> <<"GetEnv">>] \in StageType
        /\ [name |-> "VerifyDex",   calls |-> <<"verify_blob">>] \in StageType
    BY <1>1, CallListsAre, Zenon DEF StageNameSet
  <1>3. ASSUME NEW S, NEW x1 \in S, NEW x2 \in S PROVE <<x1, x2>> \in Seq(S)
    OBVIOUS
  <1>4. ASSUME NEW S, NEW x1 \in S, NEW x2 \in S, NEW x3 \in S, NEW x4 \in S, NEW x5 \in S
        PROVE  <<x1, x2, x3, x4, x5>> \in Seq(S)
    OBVIOUS
  <1> QED
    BY <1>2, <1>3, <1>4, Zenon DEF First, Last

LEMMA StagesAre ==
    /\ Len(Stages) = 16 /\ Stages \in Seq(StageType)
    /\ Joins(Stages, Front, 11, Last, 5) /\ Joins(Front, First, 2, DexStages, 9)
  <1>1. Len(First) = 2 /\ Len(DexStages) = 9 /\ Len(Last) = 5
    BY DEF First, DexStages, Last
  <1>2. /\ Front \in Seq(StageType) /\ Len(Front) = 2 + 9
        /\ Joins(Front, First, 2, DexStages, 9)
    BY <1>1, EndsTyped, DexTyped, Joined, Zenon DEF Front
  <1>3. Front \in Seq(StageType) /\ Len(Front) = 11
    BY <1>2
  <1>4. /\ Front \o Last \in Seq(StageType) /\ Len(Front \o Last) = 11 + 5
        /\ Joins(Front \o Last, Front, 11, Last, 5)
    <2>1. Last \in Seq(StageType) /\ Len(Last) = 5
      BY <1>1, EndsTyped
    <2>2. /\ Front \o Last \in Seq(StageType)
          /\ Len(Front \o Last) = Len(Front) + Len(Last)
          /\ Joins(Front \o Last, Front, Len(Front), Last, Len(Last))
      BY <1>3, <2>1, Joined, Zenon
    <2> QED
      BY <1>3, <2>1, <2>2, Zenon
  <1>5. Stages = Front \o Last
    BY DEF Stages, Front, First, Last
  <1>6. 11 + 5 = 16
    OBVIOUS
  <1> QED
    BY <1>2, <1>4, <1>5, <1>6, Zenon

\* The names of the stages, in order.
LEMMA StageNames ==
    /\ Stages[1].name = "GetEnv" /\ Stages[2].name = "VerifyDex"
    /\ Stages[3].name = "ActivityThread" /\ Stages[4].name = "Application"
    /\ Stages[5].name = "ClassLoader" /\ Stages[6].name = "DexBuffer"
    /\ Stages[7].name = "DexLoader" /\ Stages[8].name = "UpgradeBuffer"
    /\ Stages[9].name = "Upgrade" /\ Stages[10].name = "EntryClass"
    /\ Stages[11].name = "Promote" /\ Stages[12].name = "Resources"
    /\ Stages[13].name = "Natives" /\ Stages[14].name = "FilesDir"
    /\ Stages[15].name = "FindInstall" /\ Stages[16].name = "Install"
  <1>1. Stages[1].name = "GetEnv" /\ Stages[2].name = "VerifyDex"
    BY StagesAre DEF First, Joins
  <1>2. /\ Stages[2+1].name = "ActivityThread" /\ Stages[2+2].name = "Application"
        /\ Stages[2+3].name = "ClassLoader" /\ Stages[2+4].name = "DexBuffer"
        /\ Stages[2+5].name = "DexLoader" /\ Stages[2+6].name = "UpgradeBuffer"
        /\ Stages[2+7].name = "Upgrade" /\ Stages[2+8].name = "EntryClass"
        /\ Stages[2+9].name = "Promote"
    <2>1. /\ DexStages[1].name = "ActivityThread" /\ DexStages[2].name = "Application"
          /\ DexStages[3].name = "ClassLoader" /\ DexStages[4].name = "DexBuffer"
          /\ DexStages[5].name = "DexLoader" /\ DexStages[6].name = "UpgradeBuffer"
          /\ DexStages[7].name = "Upgrade" /\ DexStages[8].name = "EntryClass"
          /\ DexStages[9].name = "Promote"
      BY DEF DexStages
    <2> QED
      BY <2>1, StagesAre DEF Joins
  <1>3. /\ Stages[11+1].name = "Resources" /\ Stages[11+2].name = "Natives"
        /\ Stages[11+3].name = "FilesDir" /\ Stages[11+4].name = "FindInstall"
        /\ Stages[11+5].name = "Install"
    <2>1. /\ Last[1].name = "Resources" /\ Last[2].name = "Natives"
          /\ Last[3].name = "FilesDir" /\ Last[4].name = "FindInstall"
          /\ Last[5].name = "Install"
      BY DEF Last
    <2> QED
      BY <2>1, StagesAre DEF Joins
  <1> QED
    BY <1>1, <1>2, <1>3

\* What JNI_OnLoad() tells its stages apart by.
LEMMA StageOrder ==
    \A i \in 1 .. 16 :
       /\ Stages[i].name = "Promote" <=> i = 11
       /\ Stages[i].name = "Resources" <=> i = 12
       /\ Stages[i].name = "Natives" <=> i = 13
       /\ Stages[i].name = "Install" <=> i = 16
       /\ Stages[i].name = "DexLoader" <=> i = 7
       /\ Stages[i].name = "Upgrade" <=> i = 9
       /\ Stages[i].name = "FilesDir" <=> i = 14
       /\ Stages[i].name \in LoadStages <=> i <= 11 /\ Stages[i].name \notin Optional
       /\ Stages[i].name \in Names
  <1> DEFINE Later == {"Resources", "Natives", "FilesDir", "FindInstall", "Install"}
  <1>1. \A i \in 1 .. 16 :
           \/ i = 1 \/ i = 2 \/ i = 3 \/ i = 4 \/ i = 5 \/ i = 6 \/ i = 7 \/ i = 8
           \/ i = 9 \/ i = 10 \/ i = 11 \/ i = 12 \/ i = 13 \/ i = 14 \/ i = 15 \/ i = 16
    OBVIOUS
  <1>2. \A i \in 1 .. 16 :
           /\ Stages[i].name = "Promote" <=> i = 11
           /\ Stages[i].name = "Resources" <=> i = 12
           /\ Stages[i].name = "Natives" <=> i = 13
           /\ Stages[i].name = "Install" <=> i = 16
           /\ Stages[i].name = "DexLoader" <=> i = 7
           /\ Stages[i].name = "Upgrade" <=> i = 9
           /\ Stages[i].name = "FilesDir" <=> i = 14
    BY <1>1, StageNames
  <1>3. \A i \in 1 .. 16 : Stages[i].name \in Names
    BY StagesAre DEF Names
  <1>4. \A i \in 1 .. 16 : Stages[i].name \in Later <=> i > 11
    BY <1>1, StageNames
  <1>5. \A i \in 1 .. 11, j \in 12 .. 16 : Stages[i].name # Stages[j].name
    <2> SUFFICES ASSUME NEW i \in 1 .. 11, NEW j \in 12 .. 16
                 PROVE  Stages[i].name # Stages[j].name
      OBVIOUS
    <2>1. i \in 1 .. 16 /\ ~(i > 11) /\ j \in 1 .. 16 /\ j > 11
      OBVIOUS
    <2>2. Stages[i].name \notin Later /\ Stages[j].name \in Later
      BY <1>4, <2>1
    <2> QED
      BY <2>2
  <1>6. \A i \in 1 .. 16 :
           Stages[i].name \in LoadStages <=> i <= 11 /\ Stages[i].name \notin Optional
    BY <1>5 DEF LoadStages
  <1> QED
    BY <1>2, <1>3, <1>6

-----------------------------------------------------------------------------
\* The invariant of JNI_OnLoad().
LoadTyped ==
    /\ stage \in 1 .. 16 /\ call \in 1 .. Len(Stages[stage].calls)
    /\ phase \in {"load", "returned", "aborted"} /\ failed \subseteq Names
    /\ globals \subseteq GlobalRefs /\ loader \in {"none", "plain", "aware"}

LoadFlags ==
    /\ pending \in BOOLEAN /\ resources \in BOOLEAN /\ natives \in BOOLEAN
    /\ configDir \in BOOLEAN /\ installed \in BOOLEAN

\* Before it returns, JNI_OnLoad has failed in optional stages only.
OnTheWay ==
    phase = "load" =>
        /\ ~installed /\ failed \subseteq Optional
        /\ globals = IF stage > 11 THEN GlobalRefs ELSE {}
        /\ stage <= 12 => ~resources /\ "Resources" \notin failed

\* A feature is there once its own stage is past without having failed.
ResourcesAt ==
    /\ resources <=> stage > 12 /\ "Resources" \notin failed
    /\ stage <= 12 => "Resources" \notin failed
NativesAt ==
    /\ natives <=> stage > 13 /\ "Natives" \notin failed
    /\ stage <= 13 => "Natives" \notin failed
FilesDirAt ==
    /\ configDir <=> stage > 14 /\ "FilesDir" \notin failed
    /\ stage <= 14 => "FilesDir" \notin failed
LoaderAt ==
    /\ loader = IF stage <= 7 THEN "none"
                ELSE IF stage <= 9 \/ "Upgrade" \in failed THEN "plain" ELSE "aware"
    /\ stage <= 9 => "Upgrade" \notin failed
FeaturesSoFar == phase = "load" => ResourcesAt /\ NativesAt /\ FilesDirAt /\ LoaderAt

\* What RegisterNatives() threw is pending before the next call only, the first
\* of get_files_dir_path(); the VM aborts for nothing else.
Confined ==
    /\ pending => stage = 14 /\ call = 1 /\ "Natives" \in failed
    /\ phase = "aborted" => pending

\* A ByteBuffer that is handed over passed its checks.
BlobOnlyIfSound == resources => "Resources" \notin failed

LoadInv == /\ LoadTyped /\ LoadFlags /\ OnTheWay /\ BlobOnlyIfSound
           /\ FeaturesSoFar /\ Confined /\ HandoffReached /\ LeavesNoHalf

LEMMA CallsNotEmpty ==
    \A i \in 1 .. 16 : Len(Stages[i].calls) \in Nat /\ Len(Stages[i].calls) >= 1
  <1> TAKE i \in 1 .. 16
  <1>1. Stages[i] \in StageType
    <2>1. ASSUME NEW S, NEW q \in Seq(S), NEW j \in 1 .. Len(q) PROVE q[j] \in S
      OBVIOUS
    <2>2. i \in 1 .. Len(Stages) /\ Stages \in Seq(StageType)
      BY StagesAre
    <2> QED
      BY <2>1, <2>2, Zenon
  <1>2. Stages[i].calls \in Seq(JniCallNames) /\ Stages[i].calls # <<>>
    BY <1>1 DEF StageType, CallLists, NonEmpty
  <1> QED
    BY <1>2

LEMMA InitLoads == Init => LoadInv
  <1> SUFFICES ASSUME Init PROVE LoadInv
    OBVIOUS
  <1>1. LoadTyped
    BY CallsNotEmpty DEF Init, LoadTyped
  <1>2. LoadFlags
    BY DEF Init, LoadFlags
  <1>3. OnTheWay /\ BlobOnlyIfSound /\ HandoffReached /\ LeavesNoHalf /\ Confined
    BY DEF Init, OnTheWay, BlobOnlyIfSound, HandoffReached, LeavesNoHalf, Confined
  <1>4. FeaturesSoFar
    BY DEF Init, FeaturesSoFar, ResourcesAt, NativesAt, FilesDirAt, LoaderAt
  <1> QED
    BY <1>1, <1>2, <1>3, <1>4 DEF LoadInv

LEMMA StageHere ==
    ASSUME LoadTyped
    PROVE  /\ stage \in 1 .. 16 /\ Name \in Names
           /\ Name = "Promote" <=> stage = 11
           /\ Name = "Resources" <=> stage = 12
           /\ Name = "Natives" <=> stage = 13
           /\ Name = "Install" <=> stage = 16
           /\ Name = "DexLoader" <=> stage = 7
           /\ Name = "Upgrade" <=> stage = 9
           /\ Name = "FilesDir" <=> stage = 14
           /\ Name \in LoadStages <=> stage <= 11 /\ Name \notin Optional
           /\ LastStage <=> stage = 16
  BY StageOrder, StagesAre DEF LoadTyped, Name, LastStage

\* The next stage, if there is one.
LEMMA NextStageTyped ==
    ASSUME LoadTyped, NextStage
    PROVE  /\ stage' \in 1 .. 16 /\ call' \in 1 .. Len(Stages[stage'].calls)
           /\ \/ stage = 16 /\ phase' = "returned" /\ stage' = stage
              \/ stage < 16 /\ phase' = phase /\ stage' = stage + 1
  <1>1. CASE stage = 16
    BY <1>1, StageHere DEF NextStage, Return, LoadTyped
  <1>2. CASE stage # 16
    <2>1. stage' = stage + 1 /\ call' = 1 /\ phase' = phase /\ stage \in 1 .. 15
      BY <1>2, StageHere DEF NextStage, LoadTyped
    <2>2. stage' \in 1 .. 16 /\ stage < 16
      BY <2>1
    <2>3. Len(Stages[stage'].calls) \in Nat /\ Len(Stages[stage'].calls) >= 1
      BY <2>2, CallsNotEmpty
    <2>4. \A n \in Nat : n >= 1 => 1 \in 1 .. n
      OBVIOUS
    <2>5. call' \in 1 .. Len(Stages[stage'].calls)
      BY <2>1, <2>3, <2>4
    <2> QED
      BY <2>1, <2>2, <2>5
  <1> QED
    BY <1>1, <1>2

\* With every stage past, nothing is missing but what failed.
LEMMA LastHasFeatures ==
    ASSUME LoadFlags, FeaturesSoFar, phase = "load", stage = 16 PROVE FeaturesMatch
  <1>1. ResourcesAt /\ NativesAt /\ FilesDirAt /\ LoaderAt
    BY DEF FeaturesSoFar
  <1>2. ~(stage <= 7) /\ ~(stage <= 9) /\ stage > 12 /\ stage > 13 /\ stage > 14
    OBVIOUS
  <1> QED
    BY <1>1, <1>2, Zenon
    DEF FeaturesMatch, LoadFlags, ResourcesAt, NativesAt, FilesDirAt, LoaderAt

\* A feature that its own stage's end decides: k is that stage, n its name, and
\* the flag f becomes g.
LEMMA FeatureStep ==
    ASSUME NEW f \in BOOLEAN, NEW g \in BOOLEAN, NEW k \in 1 .. 16, NEW n,
           LoadTyped, stage < 16, stage' = stage + 1,
           Name = n <=> stage = k,
           f <=> stage > k /\ n \notin failed, stage <= k => n \notin failed,
           \/ failed' = failed /\ (g <=> f \/ Name = n)
           \/ failed' = failed \cup {Name} /\ (g <=> f)
    PROVE  /\ g <=> stage' > k /\ n \notin failed'
           /\ stage' <= k => n \notin failed'
  <1>0. stage \in 1 .. 16
    BY DEF LoadTyped
  <1>1. CASE stage < k
    <2>1. Name # n /\ n \notin failed' /\ f = FALSE /\ g = FALSE
      BY <1>0, <1>1
    <2>2. ~(stage' > k)
      BY <1>0, <1>1
    <2> QED
      BY <2>1, <2>2
  <1>2. CASE stage = k
    <2>1. Name = n /\ stage' > k /\ ~(stage' <= k) /\ f = FALSE /\ n \notin failed
      BY <1>0, <1>2
    <2> QED
      BY <2>1
  <1>3. CASE stage > k
    <2>1. Name # n /\ stage' > k /\ ~(stage' <= k)
      BY <1>0, <1>3
    <2> QED
      BY <1>3, <2>1
  <1> QED
    BY <1>0, <1>1, <1>2, <1>3

LEMMA LoaderStep ==
    ASSUME LoadTyped, LoaderAt, stage < 16, stage' = stage + 1,
           \/ /\ failed' = failed
              /\ loader' = CASE Name = "DexLoader" -> "plain"
                             [] Name = "Upgrade" -> "aware"
                             [] OTHER -> loader
           \/ failed' = failed \cup {Name} /\ Name \in Optional /\ loader' = loader
    PROVE  LoaderAt'
  <1>0. /\ stage \in 1 .. 16
        /\ Name = "DexLoader" <=> stage = 7
        /\ Name = "Upgrade" <=> stage = 9
        /\ stage = 7 => Name \notin Optional
    BY StageHere DEF LoadTyped, Optional
  <1>1. CASE stage <= 6
    BY <1>0, <1>1 DEF LoaderAt
  <1>2. CASE stage = 7
    BY <1>0, <1>2 DEF LoaderAt
  <1>3. CASE stage = 8
    BY <1>0, <1>3 DEF LoaderAt
  <1>4. CASE stage = 9
    BY <1>0, <1>4 DEF LoaderAt
  <1>5. CASE stage >= 10
    BY <1>0, <1>5 DEF LoaderAt
  <1> QED
    BY <1>0, <1>1, <1>2, <1>3, <1>4, <1>5

\* The step that ends a stage before the last, by success or by a failure that is
\* not fatal, keeps the account of the features.
LEMMA FeaturesStep ==
    ASSUME LoadTyped, LoadFlags, LoadFlags', FeaturesSoFar, phase = "load",
           stage < 16, stage' = stage + 1,
           \/ Effect /\ failed' = failed
           \/ LeaveFeatures /\ failed' = failed \cup {Name} /\ Name \in Optional
    PROVE  FeaturesSoFar'
  <1>0. ResourcesAt /\ NativesAt /\ FilesDirAt /\ LoaderAt
    BY DEF FeaturesSoFar
  <1>1. ResourcesAt'
    <2>1. Name = "Resources" <=> stage = 12
      BY StageHere
    <2>2. \/ failed' = failed /\ (resources' <=> resources \/ Name = "Resources")
          \/ failed' = failed \cup {Name} /\ (resources' <=> resources)
      BY DEF Effect, LeaveFeatures
    <2> QED
      BY <1>0, <2>1, <2>2, FeatureStep DEF ResourcesAt, LoadFlags
  <1>2. NativesAt'
    <2>1. Name = "Natives" <=> stage = 13
      BY StageHere
    <2>2. \/ failed' = failed /\ (natives' <=> natives \/ Name = "Natives")
          \/ failed' = failed \cup {Name} /\ (natives' <=> natives)
      BY DEF Effect, LeaveFeatures
    <2> QED
      BY <1>0, <2>1, <2>2, FeatureStep DEF NativesAt, LoadFlags
  <1>3. FilesDirAt'
    <2>1. Name = "FilesDir" <=> stage = 14
      BY StageHere
    <2>2. \/ failed' = failed /\ (configDir' <=> configDir \/ Name = "FilesDir")
          \/ failed' = failed \cup {Name} /\ (configDir' <=> configDir)
      BY DEF Effect, LeaveFeatures
    <2> QED
      BY <1>0, <2>1, <2>2, FeatureStep DEF FilesDirAt, LoadFlags
  <1>4. LoaderAt'
    BY <1>0, LoaderStep DEF Effect, LeaveFeatures
  <1> QED
    BY <1>1, <1>2, <1>3, <1>4 DEF FeaturesSoFar

\* A call that succeeds.
LEMMA SuccessKeeps == ASSUME LoadInv, CallSucceeds PROVE LoadInv'
  <1> USE DEF LoadInv
  <1>0. /\ phase = "load" /\ pending = FALSE /\ pending' = FALSE /\ failed' = failed
        /\ ~installed /\ failed \subseteq Optional
        /\ globals = IF stage > 11 THEN GlobalRefs ELSE {}
    BY DEF CallSucceeds, OnTheWay, LoadFlags
  <1>1. CASE ~LastCall
    <2>1. /\ call' = call + 1 /\ stage' = stage /\ phase' = phase
          /\ globals' = globals /\ loader' = loader /\ resources' = resources
          /\ natives' = natives /\ configDir' = configDir /\ installed' = installed
      BY <1>1 DEF CallSucceeds, featureVars
    <2>2. LoadTyped'
      <3>1. \A n \in Nat : \A k \in 1 .. n : k # n => k + 1 \in 1 .. n
        OBVIOUS
      <3>2. Len(Stages[stage].calls) \in Nat /\ call \in 1 .. Len(Stages[stage].calls)
        BY CallsNotEmpty DEF LoadTyped
      <3>3. call' \in 1 .. Len(Stages[stage'].calls)
        BY <1>1, <2>1, <3>1, <3>2 DEF LastCall
      <3> QED
        BY <1>0, <2>1, <3>3 DEF LoadTyped
    <2>3. LoadFlags' /\ OnTheWay' /\ BlobOnlyIfSound'
      BY <1>0, <2>1 DEF LoadFlags, OnTheWay, BlobOnlyIfSound
    <2>4. HandoffReached' /\ LeavesNoHalf' /\ Confined'
      BY <1>0, <2>1 DEF HandoffReached, LeavesNoHalf, Confined
    <2>5. FeaturesSoFar'
      BY <1>0, <2>1 DEF FeaturesSoFar, ResourcesAt, NativesAt, FilesDirAt, LoaderAt
    <2> QED
      BY <2>2, <2>3, <2>4, <2>5
  <1>2. CASE LastCall
    <2>1. Effect /\ NextStage
      BY <1>2 DEF CallSucceeds
    <2>2. /\ stage' \in 1 .. 16 /\ call' \in 1 .. Len(Stages[stage'].calls)
          /\ \/ stage = 16 /\ phase' = "returned" /\ stage' = stage
             \/ stage < 16 /\ phase' = "load" /\ stage' = stage + 1
      BY <1>0, <2>1, NextStageTyped
    <2>3. globals' = IF stage >= 11 THEN GlobalRefs ELSE {}
      BY <1>0, <2>1, StageHere DEF Effect, LoadTyped
    <2>4. LoadFlags' /\ (resources' <=> resources \/ stage = 12) /\ (installed' <=> stage = 16)
      <3>1. /\ resources' \in BOOLEAN /\ natives' \in BOOLEAN
            /\ configDir' \in BOOLEAN /\ installed' \in BOOLEAN
            /\ (resources' <=> resources \/ Name = "Resources")
            /\ (installed' <=> installed \/ Name = "Install")
        BY <2>1, Zenon DEF Effect
      <3>2. pending' \in BOOLEAN
        BY <1>0
      <3> QED
        BY <1>0, <3>1, <3>2, StageHere DEF LoadFlags
    <2>5. LoadTyped'
      BY <1>0, <2>1, <2>2, <2>3 DEF LoadTyped, Effect
    <2>6. OnTheWay'
      <3> SUFFICES ASSUME phase' = "load" PROVE
            /\ ~installed' /\ failed' \subseteq Optional
            /\ globals' = IF stage' > 11 THEN GlobalRefs ELSE {}
            /\ stage' <= 12 => ~resources' /\ "Resources" \notin failed'
        BY DEF OnTheWay
      <3>1. stage < 16 /\ stage' = stage + 1 /\ stage \in 1 .. 16
        BY <2>2 DEF LoadTyped
      <3>2. globals' = IF stage' > 11 THEN GlobalRefs ELSE {}
        BY <2>3, <3>1
      <3>3. stage' <= 12 => stage <= 12 /\ stage # 12
        BY <3>1
      <3>4. stage' <= 12 => ~resources' /\ "Resources" \notin failed'
        BY <1>0, <2>4, <3>3 DEF OnTheWay
      <3>5. ~installed'
        BY <2>4, <3>1
      <3> QED
        BY <1>0, <3>2, <3>4, <3>5
    <2>7. BlobOnlyIfSound'
      BY <1>0, <2>4 DEF BlobOnlyIfSound, OnTheWay
    <2>8. failed \cap LoadStages = {}
      BY <1>0 DEF LoadStages
    <2>9. LeavesNoHalf' /\ Confined'
      BY <1>0, <2>2, <2>3, <2>4, <2>8 DEF LeavesNoHalf, Confined
    <2>10. FeaturesSoFar'
      <3>1. CASE stage < 16
        BY <1>0, <2>1, <2>2, <2>4, <3>1, FeaturesStep
      <3>2. CASE stage = 16
        BY <2>2, <3>2 DEF FeaturesSoFar
      <3> QED
        BY <2>2, <3>1, <3>2
    <2>11. HandoffReached'
      <3> SUFFICES ASSUME phase' = "returned"
                   PROVE  /\ installed' <=> failed' \subseteq Optional \cup {"Install"}
                          /\ FeaturesMatch'
        BY DEF HandoffReached
      <3>1. stage = 16
        BY <2>2
      <3>2. FeaturesMatch
        BY <1>0, <3>1, LastHasFeatures
      <3>3. /\ Name # "Resources" /\ Name # "Natives" /\ Name # "FilesDir"
            /\ Name # "DexLoader" /\ Name # "Upgrade"
        BY <3>1, StageHere
      <3>4. /\ loader' = loader /\ (resources' <=> resources)
            /\ (natives' <=> natives) /\ (configDir' <=> configDir)
        BY <2>1, <3>3 DEF Effect
      <3>5. FeaturesMatch'
        BY <1>0, <3>2, <3>4, Zenon DEF FeaturesMatch
      <3> QED
        BY <1>0, <2>4, <3>1, <3>5
    <2> QED
      BY <2>4, <2>5, <2>6, <2>7, <2>9, <2>10, <2>11
  <1> QED
    BY <1>1, <1>2

\* A stage that fails, alone or because of an exception that was pending.
LEMMA FailKeeps ==
    ASSUME LoadInv, phase = "load", Fail, LeaveFeatures, pending' \in BOOLEAN,
           pending' = TRUE => stage = 13
    PROVE  LoadInv'
  <1> USE DEF LoadInv
  <1>0. /\ ~installed /\ failed \subseteq Optional
        /\ globals = IF stage > 11 THEN GlobalRefs ELSE {}
        /\ failed' = failed \cup {Name}
    BY DEF OnTheWay, Fail
  <1>1. /\ stage' \in 1 .. 16 /\ call' \in 1 .. Len(Stages[stage'].calls)
        /\ phase' \in {"load", "returned"}
    <2>1. CASE Name \in Optional
      BY <2>1, NextStageTyped DEF Fail
    <2>2. CASE Name \notin Optional
      BY <2>2 DEF Fail, Return, LoadTyped
    <2> QED
      BY <2>1, <2>2
  <1>2. phase' = "load" <=> Name \in Optional
    <2>1. CASE Name \in Optional
      <3>1. stage # 16
        BY <2>1, StageHere DEF Optional
      <3> QED
        BY <2>1, <3>1, NextStageTyped DEF Fail
    <2>2. CASE Name \notin Optional
      BY <2>2 DEF Fail, Return
    <2> QED
      BY <2>1, <2>2
  <1>3. globals' = globals
    BY <1>0, StageHere DEF LeaveFeatures
  <1>4. /\ resources' = resources /\ loader' = loader
        /\ natives' = natives /\ configDir' = configDir
        /\ installed' \in BOOLEAN /\ (installed' <=> stage = 16)
    <2>1. installed' = (installed \/ Name = "Install")
      BY DEF LeaveFeatures
    <2>2. installed' \in BOOLEAN /\ (installed' <=> Name = "Install")
      BY <1>0, <2>1, Zenon
    <2> QED
      BY <2>2, StageHere DEF LeaveFeatures
  <1>5. LoadTyped'
    BY <1>0, <1>1, <1>3, <1>4, StageHere DEF LoadTyped
  <1>6. LoadFlags'
    BY <1>4 DEF LoadFlags
  <1>7. OnTheWay'
    <2> SUFFICES ASSUME phase' = "load" PROVE
        /\ ~installed' /\ failed' \subseteq Optional
        /\ globals' = IF stage' > 11 THEN GlobalRefs ELSE {}
        /\ stage' <= 12 => ~resources' /\ "Resources" \notin failed'
      BY DEF OnTheWay
    <2>1. Name \in Optional /\ stage # 16 /\ stage # 11 /\ stage' = stage + 1
      BY <1>2, StageHere, NextStageTyped DEF Fail, Optional
    <2> QED
      BY <1>0, <1>3, <1>4, <2>1, StageHere DEF OnTheWay
  <1>8. BlobOnlyIfSound'
    BY <1>0, <1>4, StageHere DEF BlobOnlyIfSound, OnTheWay
  <1>9. HandoffReached'
    <2> SUFFICES ASSUME phase' = "returned"
                 PROVE  /\ installed' <=> failed' \subseteq Optional \cup {"Install"}
                        /\ installed' => FeaturesMatch'
      BY DEF HandoffReached
    <2>1. Name \notin Optional
      BY <1>2
    <2>2. installed' <=> failed' \subseteq Optional \cup {"Install"}
      BY <1>0, <1>4, <2>1, StageHere
    <2>3. ASSUME installed' PROVE FeaturesMatch'
      <3>1. FeaturesMatch
        BY <1>4, <2>3, LastHasFeatures
      <3>2. failed' = failed \cup {"Install"}
        BY <1>0, <1>4, <2>3, StageHere
      <3>3. \A n \in {"Resources", "Natives", "FilesDir", "Upgrade"} :
               n \in failed' <=> n \in failed
        BY <3>2
      <3> QED
        BY <1>4, <3>1, <3>3 DEF FeaturesMatch
    <2> QED
      BY <2>2, <2>3
  <1>10. LeavesNoHalf'
    <2> SUFFICES ASSUME phase' = "returned"
                 PROVE  /\ globals' = IF failed' \cap LoadStages = {} THEN GlobalRefs ELSE {}
                        /\ ~pending'
      BY DEF LeavesNoHalf
    <2>1. Name \notin Optional /\ stage # 13
      BY <1>2, StageHere DEF Optional
    <2>2. failed' \cap LoadStages = {} <=> stage > 11
      BY <1>0, <2>1, StageHere DEF LoadStages
    <2> QED
      BY <1>0, <1>3, <2>1, <2>2
  <1>11. FeaturesSoFar'
    <2>1. CASE Name \in Optional
      <3>1. stage < 16 /\ stage' = stage + 1
        BY <1>2, <2>1, NextStageTyped DEF Fail
      <3> QED
        BY <1>0, <1>6, <2>1, <3>1, FeaturesStep
    <2>2. CASE Name \notin Optional
      BY <1>2, <2>2 DEF FeaturesSoFar
    <2> QED
      BY <2>1, <2>2
  <1>12. Confined'
    <2>1. CASE pending' = TRUE
      <3>1. Name = "Natives" /\ stage = 13
        BY <2>1, StageHere
      <3>2. NextStage /\ ~LastStage
        BY <3>1, StageHere DEF Fail, Optional
      <3>3. stage' = 14 /\ call' = 1 /\ "Natives" \in failed'
        BY <1>0, <3>1, <3>2 DEF NextStage
      <3> QED
        BY <1>1, <2>1, <3>3 DEF Confined
    <2>2. CASE pending' = FALSE
      BY <1>1, <2>2 DEF Confined
    <2> QED
      BY <2>1, <2>2
  <1> QED
    BY <1>5, <1>6, <1>7, <1>8, <1>9, <1>10, <1>11, <1>12

LEMMA NextLoads == ASSUME LoadInv, [Next]_vars PROVE LoadInv'
  <1>1. CASE CallSucceeds
    BY <1>1, SuccessKeeps
  <1>2. CASE CallFails
    <2>1. pending' \in BOOLEAN /\ (pending' = TRUE => stage = 13)
      BY <1>2, StageHere DEF CallFails, LoadInv
    <2> QED
      BY <1>2, <2>1, FailKeeps DEF CallFails
  <1>3. CASE CallPending /\ phase' # "aborted"
    BY <1>3, FailKeeps DEF CallPending
  <1>4. CASE CallPending /\ phase' = "aborted"
    <2>1. UNCHANGED <<stage, call, pending, failed, featureVars>>
      BY <1>4, NextStageTyped DEF CallPending, Fail, Return, LoadInv
    <2>2. FeaturesSoFar' /\ Confined'
      BY <1>4, <2>1 DEF LoadInv, FeaturesSoFar, Confined, CallPending
    <2> QED
      BY <1>4, <2>1, <2>2
      DEF LoadInv, LoadTyped, LoadFlags, OnTheWay, BlobOnlyIfSound, HandoffReached,
          LeavesNoHalf, featureVars
  <1>5. CASE UNCHANGED vars
    <2>1. FeaturesSoFar' /\ Confined'
      BY <1>5 DEF LoadInv, FeaturesSoFar, ResourcesAt, NativesAt, FilesDirAt, LoaderAt,
                  Confined, vars, featureVars
    <2> QED
      BY <1>5, <2>1
      DEF LoadInv, LoadTyped, LoadFlags, OnTheWay, BlobOnlyIfSound, HandoffReached,
          FeaturesMatch, LeavesNoHalf, vars, featureVars
  <1> QED
    BY <1>1, <1>2, <1>3, <1>4, <1>5 DEF Next

LEMMA LoadInductive == Spec => []LoadInv
  BY InitLoads, NextLoads, PTL DEF Spec

\* Nothing of JNI_OnLoad() depends on what becomes of the resources.
LEMMA ResourcesLoad == ResourcesSpec => []LoadInv
  <1>1. ResourcesInit => LoadInv
    BY InitLoads DEF ResourcesInit
  <1>2. LoadInv /\ [ResourcesNext]_<<vars, resourceVars>> => LoadInv'
    BY NextLoads DEF ResourcesNext
  <1> QED
    BY <1>1, <1>2, PTL DEF ResourcesSpec

-----------------------------------------------------------------------------
\* What the resources take over from JNI_OnLoad(): no Activity is created before it
\* has returned, and a table is only tried with a blob that passed its checks.
RolesInv ==
    /\ phase # "returned" => created = 0 /\ step = "idle"
    /\ step # "idle" => Usable
    /\ RolesResolve

BlobTyped ==
    /\ apiR \in BOOLEAN /\ sound \subseteq Activities
    /\ bytes \in {"none", "whole"} /\ memfd \in {"closed", "empty", "part", "whole"}

AllInv == LoadInv /\ ResourcesInv /\ BlobTyped /\ RolesInv

LEMMA InitAll == ResourcesInit => AllInv
  <1> SUFFICES ASSUME ResourcesInit PROVE AllInv
    OBVIOUS
  <1>1. LoadInv /\ ResourcesInv
    BY InitLoads, InitResources DEF ResourcesInit
  <1>2. BlobTyped
    BY DEF ResourcesInit, BlobTyped
  <1>3. RolesInv
    BY DEF ResourcesInit, RolesInv, RolesResolve, Done
  <1> QED
    BY <1>1, <1>2, <1>3 DEF AllInv

\* The blob that is in force is a sound one on a device that can use it.
LEMMA UsableIsSound ==
    ASSUME AllInv, step # "idle"
    PROVE  apiR /\ resources /\ "Resources" \notin failed /\ created \in Activities
  BY DEF AllInv, RolesInv, Usable, LoadInv, BlobOnlyIfSound, ResourcesInv, AttachInv

\* A step of JNI_OnLoad() is one before any Activity.
LEMMA LoadKeepsRoles ==
    ASSUME AllInv, Next, UNCHANGED resourceVars PROVE RolesInv'
  <1>1. phase = "load" /\ created = 0 /\ step = "idle"
    BY DEF AllInv, RolesInv, Next, CallSucceeds, CallFails, CallPending
  <1>2. \A a \in Activities : context[a] = "none"
    BY <1>1 DEF AllInv, ResourcesInv, AttachInv, Activities
  <1> QED
    BY <1>1, <1>2 DEF RolesInv, RolesResolve, Done, resourceVars

\* What becomes of the Activity being created leaves the others as they were.
LEMMA ResultKeepsRoles ==
    ASSUME AllInv, step # "idle", NEW c \in {"activity", "override"}, Result(c),
           UNCHANGED vars, UNCHANGED <<apiR, created, sound>>,
           \A a \in Activities \ {created} : a \in attached => a \in attached',
           c = "activity" => created \in attached' \cap sound
    PROVE  RolesInv'
  <1>1. apiR /\ "Resources" \notin failed /\ created \in Activities
    BY UsableIsSound
  <1>2. /\ context'[created] = c
        /\ \A a \in Activities \ {created} : context'[a] = context[a]
    BY <1>1 DEF Result, AllInv, ResourcesInv, ResourcesTyped
  <1>3. RolesResolve'
    <2> SUFFICES ASSUME NEW a \in Activities, context'[a] = "activity"
                 PROVE  apiR /\ "Resources" \notin failed /\ a \in attached' \cap sound
      BY DEF RolesResolve, Done, vars
    <2>1. CASE a = created
      BY <1>1, <1>2, <2>1
    <2>2. CASE a # created
      BY <1>2, <2>2 DEF AllInv, RolesInv, RolesResolve, Done
    <2> QED
      BY <2>1, <2>2
  <1>4. phase' = "returned"
    BY DEF AllInv, RolesInv, vars
  <1> QED
    BY <1>3, <1>4 DEF RolesInv, Result

LEMMA ActivityKeepsRoles ==
    ASSUME AllInv, UNCHANGED vars,
           \/ OnActivityCreated \/ Read \/ TableCallReturns \/ TableCallThrows
           \/ CloseMemfd \/ Verify
    PROVE  RolesInv' /\ BlobTyped'
  <1>0. apiR' = apiR
    BY DEF OnActivityCreated, Read, TableCallReturns, TableCallThrows, CloseMemfd, Verify
  <1>1. CASE OnActivityCreated
    <2>1. phase = "returned"
      BY <1>1 DEF OnActivityCreated, Registered
    <2>2. created + 1 \in Activities /\ context[created + 1] = "none"
      BY <1>1, ResourcesAssumption
      DEF OnActivityCreated, AllInv, ResourcesInv, ResourcesTyped, AttachInv, Activities
    <2>3. \A a \in Activities : context'[a] = "activity" => context[a] = "activity"
      BY <1>1, <2>2 DEF OnActivityCreated, AllInv, ResourcesInv, ResourcesTyped
    <2>4. RolesResolve'
      BY <1>0, <1>1, <2>3 DEF OnActivityCreated, AllInv, RolesInv, RolesResolve, Done, vars
    <2>5. step' # "idle" => Usable'
      BY <1>0, <1>1 DEF OnActivityCreated, Usable, vars, featureVars
    <2>6. BlobTyped'
      BY <1>0, <1>1 DEF OnActivityCreated, AllInv, BlobTyped
    <2> QED
      BY <2>1, <2>4, <2>5, <2>6 DEF RolesInv, vars
  <1>2. CASE Read
    <2>1. BlobTyped'
      BY <1>0, <1>2 DEF Read, CopyBlob, AllInv, BlobTyped
    <2>2. CASE step' = "Table" /\ UNCHANGED <<tableCall, throwing, context, faults>>
      BY <1>0, <1>2, <2>1, <2>2
      DEF Read, AllInv, RolesInv, RolesResolve, Done, Usable, vars, featureVars
    <2>3. CASE Result("override")
      BY <1>0, <1>2, <2>1, <2>3, ResultKeepsRoles DEF Read
    <2> QED
      BY <1>2, <2>2, <2>3 DEF Read
  <1>3. CASE TableCallReturns
    <2>1. created \in Activities /\ step' # "idle" /\ phase = "returned"
      BY <1>3 DEF TableCallReturns, AllInv, ResourcesInv, AttachInv, RolesInv
    <2>2. attached \subseteq attached' /\ sound \subseteq sound' /\ sound' \subseteq Activities
      BY <1>3, <2>1 DEF TableCallReturns, AllInv, BlobTyped
    <2>3. BlobTyped'
      BY <1>0, <1>3, <2>2 DEF TableCallReturns, Written, AllInv, BlobTyped
    <2>4. Usable' /\ RolesResolve'
      BY <1>0, <1>3, <2>2
      DEF TableCallReturns, AllInv, RolesInv, RolesResolve, Done, Usable, vars, featureVars
    <2> QED
      BY <2>1, <2>3, <2>4 DEF RolesInv, vars
  <1>4. CASE TableCallThrows
    BY <1>0, <1>4
    DEF TableCallThrows, AllInv, RolesInv, RolesResolve, Done, Usable, BlobTyped, vars,
        featureVars
  <1>5. CASE CloseMemfd
    <2>1. BlobTyped' /\ step # "idle" /\ attached' = attached /\ created' = created
      BY <1>0, <1>5 DEF CloseMemfd, AllInv, BlobTyped
    <2>2. CASE step' = "Verify" /\ UNCHANGED <<tableCall, throwing, context, faults>>
      BY <1>0, <1>5, <2>1, <2>2
      DEF CloseMemfd, AllInv, RolesInv, RolesResolve, Done, Usable, vars, featureVars
    <2>3. CASE Result("override")
      BY <1>0, <1>5, <2>1, <2>3, ResultKeepsRoles DEF CloseMemfd
    <2> QED
      BY <1>5, <2>2, <2>3 DEF CloseMemfd
  <1>6. CASE Verify
    <2>1. BlobTyped' /\ step # "idle" /\ created' = created /\ sound' = sound
      BY <1>0, <1>6 DEF Verify, AllInv, BlobTyped
    <2>2. CASE created \in sound /\ Result("activity") /\ UNCHANGED <<attached, faults>>
      <3>1. created \in attached
        BY <1>6 DEF Verify, AllInv, ResourcesInv, AttachInv
      <3> QED
        BY <1>0, <2>1, <2>2, <3>1, ResultKeepsRoles
    <2>3. CASE Result("override") /\ UndoLoader
      BY <1>0, <2>1, <2>3, ResultKeepsRoles DEF UndoLoader
    <2> QED
      BY <1>6, <2>2, <2>3 DEF Verify
  <1> QED
    BY <1>1, <1>2, <1>3, <1>4, <1>5, <1>6

LEMMA NextAll == AllInv /\ [ResourcesNext]_<<vars, resourceVars>> => AllInv'
  <1> SUFFICES ASSUME AllInv, [ResourcesNext]_<<vars, resourceVars>> PROVE AllInv'
    OBVIOUS
  <1>1. LoadInv' /\ ResourcesInv'
    BY NextLoads, NextResources DEF AllInv, ResourcesNext
  <1>2. CASE UNCHANGED resourceVars
    <2>1. BlobTyped'
      BY <1>2 DEF AllInv, BlobTyped, resourceVars
    <2>2. CASE Next
      BY <1>1, <1>2, <2>1, <2>2, LoadKeepsRoles DEF AllInv
    <2>3. CASE UNCHANGED vars
      BY <1>1, <1>2, <2>1, <2>3
      DEF AllInv, RolesInv, RolesResolve, Done, Usable, resourceVars, vars, featureVars
    <2> QED
      BY <1>2, <2>2, <2>3 DEF ResourcesNext
  <1>3. CASE ~UNCHANGED resourceVars
    BY <1>1, <1>3, ActivityKeepsRoles DEF AllInv, ResourcesNext
  <1> QED
    BY <1>2, <1>3

LEMMA AllInductive == ResourcesSpec => []AllInv
  BY InitAll, NextAll, PTL DEF ResourcesSpec

-----------------------------------------------------------------------------
\* The inductive invariant of the installation.
THEOREM ResourcesInductive == ResourcesSpec => []ResourcesInv
  BY InitResources, NextResources, PTL DEF ResourcesSpec

\* tryInstallGeneralResourcesLoader() is a clean either/or with the override.
THEOREM EitherTableOrOverride == ResourcesSpec => []OneMechanism
  <1>1. ResourcesInv => OneMechanism
    BY DEF ResourcesInv
  <1> QED
    BY <1>1, ResourcesInductive, PTL

\* Its finally block closes the memfd on every path.
THEOREM NoMemfdLeft == ResourcesSpec => []MemfdReleased
  <1>1. ResourcesInv => MemfdReleased
    BY DEF ResourcesInv
  <1> QED
    BY <1>1, ResourcesInductive, PTL

\* duplicate() gives every Activity the whole blob.
THEOREM WholeBlobForEach == ResourcesSpec => []TableNeverEmpty
  <1>1. ResourcesInv => TableNeverEmpty
    BY DEF ResourcesInv, BlobInv
  <1> QED
    BY <1>1, ResourcesInductive, PTL

\* Type correctness, of JNI_OnLoad() and of the resources.
THEOREM ResourcesAreTyped == ResourcesSpec => []ResourcesTypeOK
  <1>1. AllInv => ResourcesTypeOK
    <2> SUFFICES ASSUME AllInv PROVE ResourcesTypeOK
      OBVIOUS
    <2>1. TypeOK
      BY StagesAre DEF AllInv, LoadInv, LoadTyped, LoadFlags, TypeOK
    <2>2. {apiR, throwing, drained} \subseteq BOOLEAN
      BY DEF AllInv, BlobTyped, ResourcesInv, ResourcesTyped, BlobInv
    <2> QED
      BY <2>1, <2>2, TableCallsFacts
      DEF AllInv, BlobTyped, ResourcesInv, ResourcesTyped, ResourcesTypeOK
  <1> QED
    BY <1>1, AllInductive, PTL

\* The steps of the resources are none of JNI_OnLoad(): the composition implements
\* its specification, and what that one promises carries over.
THEOREM ResourcesImplementLoad == ResourcesSpec => Spec
  <1>1. ResourcesInit => Init
    BY DEF ResourcesInit
  <1>2. [ResourcesNext]_<<vars, resourceVars>> => [Next]_vars
    BY DEF ResourcesNext
  <1> QED
    BY <1>1, <1>2, PTL DEF ResourcesSpec, Spec

\* An optional failure never stops the handoff to Kotlin and costs its own feature
\* alone, a required one always stops it.
THEOREM HandoffIsReached == Spec => []HandoffReached
  <1>1. LoadInv => HandoffReached
    BY DEF LoadInv
  <1> QED
    BY <1>1, LoadInductive, PTL

\* JNI_OnLoad() returns with both global references or none, and nothing pending.
THEOREM NothingHalfLeft == Spec => []LeavesNoHalf
  <1>1. LoadInv => LeavesNoHalf
    BY DEF LoadInv
  <1> QED
    BY <1>1, LoadInductive, PTL

\* Both of a process whose Activities get their resources.
THEOREM LoadedThenResources == ResourcesSpec => [](HandoffReached /\ LeavesNoHalf)
  BY ResourcesImplementLoad, HandoffIsReached, NothingHalfLeft, PTL

\* How far the exception that RegisterNatives() leaves uncleared can reach: no call
\* but the next one, the first of get_files_dir_path(), is made with it, and a
\* process whose native methods are bound never has one.
ExceptionConfined ==
    /\ pending \/ phase = "aborted" => Name = "FilesDir" /\ call = 1 /\ "Natives" \in failed
    /\ phase = "load" /\ natives => ~pending
THEOREM OneCallWhilePending == Spec => []ExceptionConfined
  <1>1. LoadInv => ExceptionConfined
    <2> SUFFICES ASSUME LoadInv PROVE ExceptionConfined
      OBVIOUS
    <2>1. pending \/ phase = "aborted" => stage = 14 /\ call = 1 /\ "Natives" \in failed
      BY DEF LoadInv, Confined
    <2>2. stage = 14 => Name = "FilesDir"
      BY StageHere DEF LoadInv
    <2>3. phase = "load" /\ natives => "Natives" \notin failed
      BY DEF LoadInv, LoadFlags, FeaturesSoFar, NativesAt
    <2> QED
      BY <2>1, <2>2, <2>3 DEF ExceptionConfined
  <1> QED
    BY <1>1, LoadInductive, PTL

\* An accessibility role resolves in every Activity, by one mechanism or the other.
THEOREM EveryRoleResolves == ResourcesSpec => []RolesResolve
  <1>1. AllInv => RolesResolve
    BY DEF AllInv, RolesInv
  <1> QED
    BY <1>1, AllInductive, PTL
=============================================================================
