----------------------- MODULE StationConfig_proofs -----------------------
(***************************************************************************)
(* Assignments survive restarts, for any number of ingredients, of         *)
(* dispensers and of queued assignments.                                   *)
(***************************************************************************)
EXTENDS StationConfig, TLAPS

Post == [ingredient : Ingredient, dispenser : Dispenser]

ConfigTypeOK ==
  /\ phase \in {"off", "running", "degraded", "closing"}
  /\ mapping \in Assignments /\ file \in Assignments
  /\ posts \in Seq(Post)
  /\ intended \in Assignments

(* Only a station that has loaded its file has assignments in its queue.   *)
PostsAreHandled == posts # <<>> => phase \in {"running", "closing"}

(* Memory and file agree as long as there may be a further assignment.     *)
MemoryIsSaved == phase = "running" \/ posts # <<>> => mapping = file

(* The last choice for an ingredient is the last of its assignments in the *)
(* queue, or in the file if there is none.                                 *)
LastPost(k, i) ==
  /\ posts[k].ingredient = i
  /\ \A j \in DOMAIN posts : j > k => posts[j].ingredient # i

ChoiceIsKept(i) ==
  \/ \E k \in DOMAIN posts : LastPost(k, i) /\ posts[k].dispenser = intended[i]
  \/ (\A k \in DOMAIN posts : posts[k].ingredient # i) /\ file[i] = intended[i]

(* With files that were cut short as well: the last choice may be missing, *)
(* but what it replaced is not found again.                                *)
Loaded == phase = "running" \/ posts # <<>>

ChoiceIsLatest(i) ==
  \/ \E k \in DOMAIN posts : LastPost(k, i) /\ posts[k].dispenser = intended[i]
  \/ /\ \A k \in DOMAIN posts : posts[k].ingredient # i
     /\ file[i] \in {Unassigned, intended[i]}
     /\ Loaded => mapping[i] \in {Unassigned, intended[i]}

ConfigInv ==
  /\ ConfigTypeOK /\ PostsAreHandled
  /\ faults = {} => MemoryIsSaved /\ \A i \in Ingredient : ChoiceIsKept(i)
  /\ faults \subseteq {"cut"} => \A i \in Ingredient : ChoiceIsLatest(i)
-----------------------------------------------------------------------------
LEMMA InitConfig == ConfigInit => ConfigInv
BY DEF ConfigInit, ConfigInv, ConfigTypeOK, PostsAreHandled, MemoryIsSaved, ChoiceIsKept, LastPost,
       ChoiceIsLatest, Loaded, Assignments, Nothing

(* A further assignment becomes the last one of its ingredient and leaves  *)
(* the last ones of the others.                                            *)
LEMMA AssignKeepsChoices ==
  ASSUME ConfigInv, NEW i \in Ingredient, NEW d \in Dispenser, OnAssign(i, d)
  PROVE  ConfigInv'
<1> DEFINE p == [ingredient |-> i, dispenser |-> d]
<1>1. /\ posts' = Append(posts, p) /\ p \in Post
      /\ phase' = "running" /\ phase = "running"
      /\ mapping' = mapping /\ file' = file /\ faults' = faults
      /\ intended' = [intended EXCEPT ![i] = d]
  BY DEF OnAssign, Post
<1>2. posts \in Seq(Post) /\ intended \in Assignments
  BY DEF ConfigInv, ConfigTypeOK
<1>3. /\ posts' \in Seq(Post) /\ DOMAIN posts = 1..Len(posts) /\ Len(posts) \in Nat
      /\ DOMAIN posts' = 1..(Len(posts) + 1)
      /\ posts'[Len(posts) + 1] = p /\ \A k \in 1..Len(posts) : posts'[k] = posts[k]
  BY <1>1, <1>2
<1>4. intended' \in Assignments /\ \A h \in Ingredient : intended'[h] = IF h = i THEN d ELSE intended[h]
  BY <1>1, <1>2 DEF Assignments
<1>5. ConfigTypeOK'
  BY <1>1, <1>3, <1>4 DEF ConfigInv, ConfigTypeOK
<1>6. PostsAreHandled'
  BY <1>1 DEF PostsAreHandled
<1>7. ASSUME faults' = {} PROVE MemoryIsSaved'
  BY <1>1, <1>7 DEF ConfigInv, MemoryIsSaved
<1>8. ASSUME faults' = {}, NEW h \in Ingredient PROVE ChoiceIsKept(h)'
  <2>1. ChoiceIsKept(h)
    BY <1>1, <1>8 DEF ConfigInv
  <2>2. CASE h = i
    BY <1>1, <1>3, <1>4, <2>2 DEF ChoiceIsKept, LastPost
  <2>3. CASE h # i
    <3>1. posts'[Len(posts) + 1].ingredient # h
      BY <1>3, <2>3
    <3>2. intended'[h] = intended[h] /\ file'[h] = file[h]
      BY <1>1, <1>4, <2>3
    <3>3. CASE \E k \in DOMAIN posts : LastPost(k, h) /\ posts[k].dispenser = intended[h]
      <4>1. PICK k \in DOMAIN posts : LastPost(k, h) /\ posts[k].dispenser = intended[h]
        BY <3>3
      <4>2. k \in DOMAIN posts' /\ posts'[k] = posts[k]
        BY <1>3, <4>1
      <4>3. \A j \in DOMAIN posts' : j > k => posts'[j].ingredient # h
        BY <1>3, <3>1, <4>1 DEF LastPost
      <4> QED
        BY <3>2, <4>1, <4>2, <4>3 DEF ChoiceIsKept, LastPost
    <3>4. CASE (\A k \in DOMAIN posts : posts[k].ingredient # h) /\ file[h] = intended[h]
      <4>1. \A k \in DOMAIN posts' : posts'[k].ingredient # h
        BY <1>3, <3>1, <3>4
      <4> QED
        BY <3>2, <3>4, <4>1 DEF ChoiceIsKept
    <3> QED
      BY <2>1, <3>3, <3>4 DEF ChoiceIsKept
  <2> QED
    BY <2>2, <2>3
<1>9. ASSUME faults' \subseteq {"cut"}, NEW h \in Ingredient PROVE ChoiceIsLatest(h)'
  <2>1. ChoiceIsLatest(h)
    BY <1>1, <1>9 DEF ConfigInv
  <2>2. CASE h = i
    BY <1>1, <1>3, <1>4, <2>2 DEF ChoiceIsLatest, LastPost
  <2>3. CASE h # i
    <3>1. posts'[Len(posts) + 1].ingredient # h
      BY <1>3, <2>3
    <3>2. intended'[h] = intended[h] /\ file'[h] = file[h] /\ mapping'[h] = mapping[h]
      BY <1>1, <1>4, <2>3
    <3>3. CASE \E k \in DOMAIN posts : LastPost(k, h) /\ posts[k].dispenser = intended[h]
      <4>1. PICK k \in DOMAIN posts : LastPost(k, h) /\ posts[k].dispenser = intended[h]
        BY <3>3
      <4>2. k \in DOMAIN posts' /\ posts'[k] = posts[k]
        BY <1>3, <4>1
      <4>3. \A j \in DOMAIN posts' : j > k => posts'[j].ingredient # h
        BY <1>3, <3>1, <4>1 DEF LastPost
      <4> QED
        BY <3>2, <4>1, <4>2, <4>3 DEF ChoiceIsLatest, LastPost
    <3>4. CASE /\ \A k \in DOMAIN posts : posts[k].ingredient # h
               /\ file[h] \in {Unassigned, intended[h]} /\ mapping[h] \in {Unassigned, intended[h]}
      <4>1. \A k \in DOMAIN posts' : posts'[k].ingredient # h
        BY <1>3, <3>1, <3>4
      <4> QED
        BY <3>2, <3>4, <4>1 DEF ChoiceIsLatest
    <3> QED
      BY <1>1, <2>1, <3>3, <3>4 DEF ChoiceIsLatest, Loaded
  <2> QED
    BY <2>2, <2>3
<1> QED
  BY <1>5, <1>6, <1>7, <1>8, <1>9 DEF ConfigInv

LEMMA AssignedIsHead ==
  ASSUME ConfigTypeOK, posts # <<>>
  PROVE  /\ Assigned \in Assignments
         /\ \A h \in Ingredient :
              Assigned[h] = IF h = posts[1].ingredient THEN posts[1].dispenser ELSE mapping[h]
<1>1. posts[1] \in Post
  BY DEF ConfigTypeOK
<1> QED
  BY <1>1 DEF Assigned, Assignments, ConfigTypeOK, Post

(* Handling the first assignment moves it from the queue into the file, or *)
(* the save fails, which is a fault.                                       *)
LEMMA UpdateKeepsChoices == ConfigInv /\ UpdateMapping => ConfigInv'
<1> SUFFICES ASSUME ConfigInv, UpdateMapping PROVE ConfigInv'
  OBVIOUS
<1> DEFINE p == posts[1]
<1>1. /\ posts' = Tail(posts) /\ posts # <<>> /\ posts \in Seq(Post)
      /\ phase' = phase /\ intended' = intended /\ phase \in {"running", "closing"}
      /\ mapping' = Assigned
  BY DEF UpdateMapping, ConfigInv, ConfigTypeOK
<1>2. /\ Len(posts) \in Nat /\ Len(posts) > 0 /\ DOMAIN posts = 1..Len(posts) /\ p \in Post
      /\ posts' \in Seq(Post) /\ DOMAIN posts' = 1..(Len(posts) - 1)
      /\ \A k \in DOMAIN posts' : posts'[k] = posts[k + 1]
  BY <1>1
<1>3. /\ Assigned \in Assignments
      /\ \A h \in Ingredient : Assigned[h] = IF h = p.ingredient THEN p.dispenser ELSE mapping[h]
  BY <1>1, AssignedIsHead DEF ConfigInv
<1>4. file' \in Assignments
  BY <1>3 DEF UpdateMapping, Damaged, CutShort, ConfigInv, ConfigTypeOK
<1>5. ConfigTypeOK'
  BY <1>1, <1>2, <1>3, <1>4 DEF ConfigInv, ConfigTypeOK
<1>6. PostsAreHandled'
  BY <1>1 DEF PostsAreHandled
<1>7. ASSUME faults' = {} PROVE faults = {} /\ file' = Assigned
  BY <1>7 DEF UpdateMapping
<1>8. ASSUME faults' = {} PROVE MemoryIsSaved'
  BY <1>1, <1>7, <1>8 DEF MemoryIsSaved
<1>9. ASSUME faults' = {}, NEW h \in Ingredient PROVE ChoiceIsKept(h)'
  <2>1. ChoiceIsKept(h) /\ mapping = file /\ file' = Assigned
    BY <1>1, <1>7, <1>9 DEF ConfigInv, MemoryIsSaved
  <2>2. CASE \E k \in DOMAIN posts : LastPost(k, h) /\ posts[k].dispenser = intended[h]
    <3>1. PICK k \in DOMAIN posts : LastPost(k, h) /\ posts[k].dispenser = intended[h]
      BY <2>2
    <3>2. CASE k = 1
      <4>1. file'[h] = intended'[h]
        BY <1>1, <1>3, <2>1, <3>1, <3>2 DEF LastPost
      <4>2. \A j \in DOMAIN posts' : posts'[j].ingredient # h
        BY <1>2, <3>1, <3>2 DEF LastPost
      <4> QED
        BY <4>1, <4>2 DEF ChoiceIsKept
    <3>3. CASE k > 1
      <4>1. k - 1 \in DOMAIN posts' /\ posts'[k - 1] = posts[k]
        BY <1>2, <3>1, <3>3
      <4>2. \A j \in DOMAIN posts' : j > k - 1 => posts'[j].ingredient # h
        BY <1>2, <3>1, <3>3 DEF LastPost
      <4> QED
        BY <1>1, <3>1, <4>1, <4>2 DEF ChoiceIsKept, LastPost
    <3> QED
      BY <1>2, <3>1, <3>2, <3>3
  <2>3. CASE (\A k \in DOMAIN posts : posts[k].ingredient # h) /\ file[h] = intended[h]
    <3>1. file'[h] = intended'[h]
      BY <1>1, <1>2, <1>3, <2>1, <2>3
    <3>2. \A j \in DOMAIN posts' : posts'[j].ingredient # h
      BY <1>2, <2>3
    <3> QED
      BY <3>1, <3>2 DEF ChoiceIsKept
  <2> QED
    BY <2>1, <2>2, <2>3 DEF ChoiceIsKept
<1>10. ASSUME faults' \subseteq {"cut"}, NEW h \in Ingredient PROVE ChoiceIsLatest(h)'
  <2>1. ChoiceIsLatest(h) /\ Loaded
    BY <1>1, <1>10 DEF UpdateMapping, ConfigInv, Loaded
  <2>2. file'[h] \in {Unassigned, Assigned[h]}
    BY <1>10 DEF UpdateMapping, Damaged, CutShort
  <2>3. CASE \E k \in DOMAIN posts : LastPost(k, h) /\ posts[k].dispenser = intended[h]
    <3>1. PICK k \in DOMAIN posts : LastPost(k, h) /\ posts[k].dispenser = intended[h]
      BY <2>3
    <3>2. CASE k = 1
      <4>1. Assigned[h] = intended'[h]
        BY <1>1, <1>3, <3>1, <3>2 DEF LastPost
      <4>2. \A j \in DOMAIN posts' : posts'[j].ingredient # h
        BY <1>2, <3>1, <3>2 DEF LastPost
      <4> QED
        BY <1>1, <2>2, <4>1, <4>2 DEF ChoiceIsLatest
    <3>3. CASE k > 1
      <4>1. k - 1 \in DOMAIN posts' /\ posts'[k - 1] = posts[k]
        BY <1>2, <3>1, <3>3
      <4>2. \A j \in DOMAIN posts' : j > k - 1 => posts'[j].ingredient # h
        BY <1>2, <3>1, <3>3 DEF LastPost
      <4> QED
        BY <1>1, <3>1, <4>1, <4>2 DEF ChoiceIsLatest, LastPost
    <3> QED
      BY <1>2, <3>1, <3>2, <3>3
  <2>4. CASE (\A k \in DOMAIN posts : posts[k].ingredient # h) /\ mapping[h] \in {Unassigned, intended[h]}
    <3>1. Assigned[h] \in {Unassigned, intended'[h]}
      BY <1>1, <1>2, <1>3, <2>4
    <3>2. \A j \in DOMAIN posts' : posts'[j].ingredient # h
      BY <1>2, <2>4
    <3> QED
      BY <1>1, <2>2, <3>1, <3>2 DEF ChoiceIsLatest
  <2> QED
    BY <2>1, <2>3, <2>4 DEF ChoiceIsLatest
<1> QED
  BY <1>5, <1>6, <1>8, <1>9, <1>10 DEF ConfigInv

(* Starting, closing and stopping: the queue stays as it is, or a crash    *)
(* that dropped or damaged something is a fault.                           *)
LEMMA PhasesKeepChoices ==
  ASSUME ConfigInv,
         StartUp \/ StartDegraded \/ CloseWindow \/ StopJoin \/ Crash \/ CrashInSave \/ UNCHANGED configVars
  PROVE  ConfigInv'
<1> USE DEF ConfigInv, ConfigTypeOK, PostsAreHandled, MemoryIsSaved, ChoiceIsKept, LastPost,
            ChoiceIsLatest, Loaded
<1>1. CASE StartUp
  BY <1>1 DEF StartUp
<1>2. CASE StartDegraded
  BY <1>2 DEF StartDegraded, Nothing, Assignments
<1>3. CASE CloseWindow
  BY <1>3 DEF CloseWindow
<1>4. CASE StopJoin
  BY <1>4 DEF StopJoin
<1>5. CASE Crash
  <2>1. ASSUME faults' \subseteq {"cut"} PROVE posts = <<>> /\ faults \subseteq {"cut"} /\ faults' = faults
    BY <1>5, <2>1 DEF Crash
  <2>2. ASSUME faults' \subseteq {"cut"} PROVE posts = <<>> /\ DOMAIN posts = {} /\ DOMAIN posts' = {}
    BY <1>5, <2>1, <2>2 DEF Crash
  <2>3. ~Loaded'
    BY <1>5 DEF Crash
  <2>4. ASSUME faults' \subseteq {"cut"}, NEW h \in Ingredient PROVE ChoiceIsLatest(h)'
    BY <1>5, <2>1, <2>2, <2>3, <2>4 DEF Crash
  <2>5. ASSUME faults' = {} PROVE MemoryIsSaved' /\ \A h \in Ingredient : ChoiceIsKept(h)'
    BY <1>5, <2>1, <2>2, <2>5 DEF Crash
  <2>6. ConfigTypeOK' /\ PostsAreHandled'
    BY <1>5 DEF Crash
  <2> QED
    BY <2>4, <2>5, <2>6
<1>6. CASE CrashInSave
  <2>1. /\ Assigned \in Assignments
        /\ \A h \in Ingredient :
             Assigned[h] = IF h = posts[1].ingredient THEN posts[1].dispenser ELSE mapping[h]
    BY <1>6, AssignedIsHead DEF CrashInSave
  <2>2. /\ posts' = <<>> /\ DOMAIN posts' = {} /\ phase' = "off" /\ intended' = intended
        /\ mapping' = mapping /\ file' \in CutShort(Assigned) /\ "cut" \in faults'
    BY <1>6 DEF CrashInSave, Damaged
  <2>3. ConfigTypeOK' /\ PostsAreHandled'
    BY <2>2 DEF CutShort
  <2>4. ASSUME faults' \subseteq {"cut"}, NEW h \in Ingredient PROVE ChoiceIsLatest(h)'
    <3>1. Len(posts) = 1 /\ DOMAIN posts = {1} /\ faults \subseteq {"cut"} /\ Loaded
      BY <1>6, <2>4 DEF CrashInSave
    <3>2. Assigned[h] \in {Unassigned, intended[h]}
      BY <2>1, <3>1
    <3>3. file'[h] \in {Unassigned, Assigned[h]}
      BY <2>2 DEF CutShort
    <3> QED
      BY <2>2, <3>2, <3>3
  <2> QED
    BY <2>2, <2>3, <2>4
<1>7. CASE UNCHANGED configVars
  BY <1>7 DEF configVars
<1> QED
  BY <1>1, <1>2, <1>3, <1>4, <1>5, <1>6, <1>7

LEMMA StepConfig == ConfigInv /\ [ConfigNext]_configVars => ConfigInv'
<1> SUFFICES ASSUME ConfigInv, [ConfigNext]_configVars PROVE ConfigInv'
  OBVIOUS
<1>1. CASE \E i \in Ingredient, d \in Dispenser : OnAssign(i, d)
  BY <1>1, AssignKeepsChoices
<1>2. CASE UpdateMapping
  BY <1>2, UpdateKeepsChoices
<1>3. CASE StartUp \/ StartDegraded \/ CloseWindow \/ StopJoin \/ Crash \/ CrashInSave \/ UNCHANGED configVars
  BY <1>3, PhasesKeepChoices
<1> QED
  BY <1>1, <1>2, <1>3 DEF ConfigNext

(* Every reachable state of the assignments satisfies the invariant.       *)
THEOREM ConfigCorrect == ConfigSpec => []ConfigInv
<1>1. ConfigInit => ConfigInv
  BY InitConfig
<1>2. ConfigInv /\ [ConfigNext]_configVars => ConfigInv'
  BY StepConfig
<1> QED
  BY <1>1, <1>2, PTL DEF ConfigSpec

(* Without a fault of the file system and without a crash that drops what  *)
(* is queued, the file holds the last choices once the queue is empty.     *)
THEOREM AssignmentsAreKept == ConfigSpec => []AssignmentsSurvive
<1>1. ConfigInv => AssignmentsSurvive
  <2> SUFFICES ASSUME ConfigInv, faults = {}, posts = <<>> PROVE file = intended
    BY DEF AssignmentsSurvive
  <2>0. DOMAIN posts = {}
    OBVIOUS
  <2>1. \A i \in Ingredient : file[i] = intended[i]
    BY <2>0 DEF ConfigInv, ChoiceIsKept
  <2>2. file \in [Ingredient -> Dispenser \cup {Unassigned}] /\ intended \in [Ingredient -> Dispenser \cup {Unassigned}]
    BY DEF ConfigInv, ConfigTypeOK, Assignments
  <2> QED
    BY <2>1, <2>2
<1> QED
  BY <1>1, ConfigCorrect, PTL

(* No start and no file that was cut short brings an assignment back that  *)
(* the operator has replaced.                                              *)
THEOREM ReplacedStaysReplaced == ConfigSpec => []NoOlderAssignment
<1>1. ConfigInv => NoOlderAssignment
  <2> SUFFICES ASSUME ConfigInv, faults \subseteq {"cut"}, posts = <<>>, phase = "running",
                      NEW i \in Ingredient
               PROVE  mapping[i] \in {Unassigned, intended[i]}
    BY DEF NoOlderAssignment
  <2>1. DOMAIN posts = {}
    OBVIOUS
  <2> QED
    BY <2>1 DEF ConfigInv, ChoiceIsLatest, Loaded
<1> QED
  BY <1>1, ConfigCorrect, PTL
=============================================================================
