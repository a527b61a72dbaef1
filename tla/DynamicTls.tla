------------------------------- MODULE DynamicTls -------------------------------
(***************************************************************************)
(* Dynamic thread local storage (src/dynamic_tls.cpp) under objects of the *)
(* class dynamic_tls (inc/alconcurrent/dynamic_tls.hpp).                   *)
(*                                                                         *)
(* An object gets a key at its first use, and a thread gets a head with    *)
(* arrays of contents, one content per key.  A key is released by the      *)
(* destructor of its object, which destroys the contents of all threads; a *)
(* thread that ends destroys its contents under all keys and leaves its    *)
(* head to another thread.  Both hold the global recursive mutex.          *)
(*                                                                         *)
(* One action is one access to shared memory with the thread-local work    *)
(* around it; taking the mutex joins the step after it and giving it back  *)
(* the step before it.  The three lists (arrays of keys, heads, arrays of  *)
(* contents) only grow at the front, so a walk is a suffix of a sequence.  *)
(***************************************************************************)
EXTENDS Naturals, Sequences, FiniteSets

CONSTANTS
  Threads,   \* the threads; each starts and ends once
  Vars,      \* the dynamic_tls objects; each is destroyed at most once
  None,      \* nullptr
  ArraySize, \* ALCONCURRENT_CONF_DYNAMIC_TLS_ARRAY_SIZE
  MaxArrays, \* bound: how many arrays of keys there can be
  Uses,      \* the object whose content a deallocator asks for, or None
  Scripts    \* bound: what each thread calls, in each history

Ops == {"get", "set", "destroy"}

ASSUME TlsAssumption ==
  /\ ArraySize \in Nat \ {0}
  /\ MaxArrays \in Nat \ {0}
  /\ IsFiniteSet(Threads)
  /\ None \notin Vars /\ None \notin Threads /\ None \notin Nat /\ None \notin Threads \X Vars
  /\ Uses \in [Vars -> Vars \cup {None}]
  /\ Scripts \subseteq [Threads -> Seq(Ops \X Vars)]

Arrays == 0 .. MaxArrays - 1
Keys == 0 .. MaxArrays * ArraySize - 1
ArrayOf(k) == k \div ArraySize
Heads == 1 .. Cardinality(Threads)

\* What a thread stores for an object: made by this thread for this object.
Data == Threads \X Vars

VARIABLES
  keyStat,  \* is_used_ of each key
  param,    \* tls_p_data_ of each key, and with it the allocator and deallocator
  numFree,  \* num_of_free_ of each array of keys
  hint,     \* hint_to_alloc_ of each array of keys
  keyChain, \* the arrays of keys from p_top_dtls_key_array_ on
  nextBase, \* next_base_idx_ / ArraySize
  heads,    \* the heads from p_top_dtls_content_head_ on
  made,     \* how many heads have been allocated
  own,      \* ownership_state_ of each head
  arrays,   \* the arrays of contents from p_head_content_ on, by their base_idx_
  stat,     \* tls_stat_ of each content
  data,     \* tls_data_ of each content
  tls,      \* tl_cnt_head_ of each thread
  mutex,    \* dynamic_tls_global_exclusive_control_for_destructions
  tlsKey,   \* tls_key_ of each object
  phase,    \* history: each object is alive, dying in its destructor, or gone
  live,     \* history: the data allocated or set and not yet deallocated
  answer,   \* history: what the last get returned to each thread
  script,   \* bound: the calls left
  loc       \* control point and locals of each thread

keyVars == <<keyStat, param, numFree, hint, keyChain, nextBase>>
headVars == <<heads, made, own>>
contentVars == <<arrays, stat, data>>
histVars == <<phase, live, answer>>
vars == <<keyVars, headVars, contentVars, tls, mutex, tlsKey, histVars, script, loc>>

Idle == [pc   |-> "idle",
         op   |-> "get",
         var  |-> None,  \* this
         key  |-> None,  \* the key of the call
         todo |-> <<>>,  \* what is left of the list that is walked
         idx  |-> 0,     \* the key within its array, or the head
         try  |-> 0,     \* how many keys of the array have been tried
         back |-> None,  \* where to go on after a release
         up   |-> None]  \* the locals of the deallocator that calls

Init ==
  /\ keyStat = [k \in Keys |-> "notUsed"]
  /\ param = [k \in Keys |-> None]
  /\ numFree = [a \in Arrays |-> ArraySize]
  /\ hint = [a \in Arrays |-> 0]
  /\ keyChain = <<>> /\ nextBase = 0
  /\ heads = <<>> /\ made = 0
  /\ own = [h \in Heads |-> "used"]
  /\ arrays = [h \in Heads |-> <<>>]
  /\ stat = [h \in Heads |-> [k \in Keys |-> "uninitialized"]]
  /\ data = [h \in Heads |-> [k \in Keys |-> None]]
  /\ tls = [t \in Threads |-> None]
  /\ mutex = [owner |-> None, depth |-> 0]
  /\ tlsKey = [v \in Vars |-> None]
  /\ phase = [v \in Vars |-> "alive"]
  /\ live = {}
  /\ answer = [t \in Threads |-> None]
  /\ script \in Scripts
  /\ loc = [t \in Threads |-> Idle]

At(t, p) == loc[t].pc = p
Goto(t, p) == loc' = [loc EXCEPT ![t].pc = p]
In(x, s) == \E i \in 1 .. Len(s) : s[i] = x

\* Faulty: nobody waits for the mutex.
LockableAlways(t) == TRUE
Lockable(t) == mutex.owner \in {None, t}
Lock(t) == mutex' = [owner |-> t, depth |-> mutex.depth + 1]
\* Faulty: the owner is not cleared.
UnlockKeepsOwner == mutex' = [mutex EXCEPT !.depth = @ - 1]
Unlock == mutex' = IF mutex.depth = 1 THEN [owner |-> None, depth |-> 0]
                   ELSE [mutex EXCEPT !.depth = @ - 1]

\* A call ends: the thread, or the deallocator that called, goes on.
Return(t) == loc' = [loc EXCEPT ![t] = IF loc[t].up = None THEN Idle ELSE loc[t].up]

-----------------------------------------------------------------------------
(* The calls of a user                                                     *)

\* An object is destroyed when no thread is in a call on it, and the objects
\* whose deallocators ask for it are gone.
MayDestroy(v) ==
  /\ \A u \in Threads : loc[u].var # v
  /\ \A w \in Vars : Uses[w] = v => phase[w] = "gone"

Begin(t) ==
  /\ At(t, "idle") /\ script[t] # <<>>
  /\ LET op == Head(script[t])[1]
         v == Head(script[t])[2]
     IN /\ phase[v] = "alive"
        /\ op = "destroy" => MayDestroy(v)
        /\ loc' = [loc EXCEPT ![t].op = op, ![t].var = v,
                              ![t].pc = IF op = "destroy" THEN "destroy" ELSE "key"]
        /\ phase' = IF op = "destroy" THEN [phase EXCEPT ![v] = "dying"] ELSE phase
  /\ script' = [script EXCEPT ![t] = Tail(@)]
  /\ answer' = [answer EXCEPT ![t] = None]
  /\ UNCHANGED <<keyVars, headVars, contentVars, tls, mutex, tlsKey, live>>

\* A call of the script whose object is gone is not made.
Skip(t) ==
  /\ At(t, "idle") /\ script[t] # <<>>
  /\ phase[Head(script[t])[2]] # "alive"
  /\ script' = [script EXCEPT ![t] = Tail(@)]
  /\ UNCHANGED <<keyVars, headVars, contentVars, tls, mutex, tlsKey, histVars, loc>>

-----------------------------------------------------------------------------
(* A key for the object                                                    *)

\* The call goes on with the key of the object.
WithKey(t, k) ==
  loc' = [loc EXCEPT ![t] = [Idle EXCEPT !.pc = "check", !.op = loc[t].op, !.var = loc[t].var,
                                         !.key = k, !.up = loc[t].up]]

\* tls_key_chk_and_get; the second load is the one of the thread that lost.
LoadKey(t) ==
  /\ At(t, "key") \/ At(t, "reload")
  /\ LET k == tlsKey[loc[t].var] IN
       IF k # None THEN WithKey(t, k)
       ELSE IF At(t, "key") THEN Goto(t, "scan")
       ELSE Return(t)
  /\ UNCHANGED <<keyVars, headVars, contentVars, tls, mutex, tlsKey, histVars, script>>

ScanArrays(t) ==
  /\ At(t, "scan")
  /\ loc' = [loc EXCEPT ![t].pc = "array", ![t].todo = keyChain]
  /\ UNCHANGED <<keyVars, headVars, contentVars, tls, mutex, tlsKey, histVars, script>>

\* search_key, and the first checks of allocate_key.
TryArray(t) ==
  /\ At(t, "array")
  /\ IF loc[t].todo = <<>> THEN Goto(t, "base")
     ELSE LET a == Head(loc[t].todo) IN
          IF numFree[a] = 0 THEN loc' = [loc EXCEPT ![t].todo = Tail(@)]
          ELSE loc' = [loc EXCEPT ![t].pc = "claim", ![t].idx = hint[a], ![t].try = 0]
  /\ UNCHANGED <<keyVars, headVars, contentVars, tls, mutex, tlsKey, histVars, script>>

NextKey(i) == (i + 1) % ArraySize

ClaimKey(t) ==
  /\ At(t, "claim")
  /\ LET a == Head(loc[t].todo)
         k == a * ArraySize + loc[t].idx
         i == NextKey(loc[t].idx)
     IN IF keyStat[k] = "notUsed"
        THEN /\ keyStat' = [keyStat EXCEPT ![k] = "used"]
             /\ loc' = [loc EXCEPT ![t].pc = "count", ![t].key = k, ![t].idx = i]
        ELSE /\ keyStat' = keyStat
             /\ loc' = IF loc[t].try + 1 < ArraySize
                       THEN [loc EXCEPT ![t].idx = i, ![t].try = @ + 1]
                       ELSE [loc EXCEPT ![t].pc = "array", ![t].todo = Tail(@)]
  /\ UNCHANGED <<param, numFree, hint, keyChain, nextBase, headVars, contentVars, tls, mutex,
                 tlsKey, histVars, script>>

CountKey(t) ==
  /\ At(t, "count")
  /\ numFree' = [numFree EXCEPT ![ArrayOf(loc[t].key)] = @ - 1]
  /\ Goto(t, "fill")
  /\ UNCHANGED <<keyStat, param, hint, keyChain, nextBase, headVars, contentVars, tls, mutex,
                 tlsKey, histVars, script>>

\* The stores behind the claim; nobody else knows the key yet.
FillKey(t) ==
  /\ At(t, "fill")
  /\ param' = [param EXCEPT ![loc[t].key] = loc[t].var]
  /\ hint' = [hint EXCEPT ![ArrayOf(loc[t].key)] = loc[t].idx]
  /\ Goto(t, "publish")
  /\ UNCHANGED <<keyStat, numFree, keyChain, nextBase, headVars, contentVars, tls, mutex,
                 tlsKey, histVars, script>>

\* push_front_dynamic_tls_key_array
NewArray(t) ==
  /\ At(t, "base") /\ nextBase < MaxArrays
  /\ nextBase' = nextBase + 1
  /\ loc' = [loc EXCEPT ![t].pc = "push", ![t].idx = nextBase, ![t].todo = keyChain]
  /\ UNCHANGED <<keyStat, param, numFree, hint, keyChain, headVars, contentVars, tls, mutex,
                 tlsKey, histVars, script>>

PushArray(t) ==
  /\ At(t, "push")
  /\ IF keyChain = loc[t].todo
     THEN keyChain' = <<loc[t].idx>> \o keyChain /\ Goto(t, "scan")
     ELSE keyChain' = keyChain /\ loc' = [loc EXCEPT ![t].todo = keyChain]
  /\ UNCHANGED <<keyStat, param, numFree, hint, nextBase, headVars, contentVars, tls, mutex,
                 tlsKey, histVars, script>>

\* The first thread to publish a key wins; another one releases its own.
PublishKey(t) ==
  /\ At(t, "publish")
  /\ IF tlsKey[loc[t].var] = None
     THEN tlsKey' = [tlsKey EXCEPT ![loc[t].var] = loc[t].key] /\ WithKey(t, loc[t].key)
     ELSE tlsKey' = tlsKey /\ loc' = [loc EXCEPT ![t].pc = "release", ![t].back = "reload"]
  /\ UNCHANGED <<keyVars, headVars, contentVars, tls, mutex, histVars, script>>

-----------------------------------------------------------------------------
(* A head for the thread, and the content in it                            *)

\* The key is in use; then get_current_thread_dynamic_tls_content_head.
CheckKey(t) ==
  /\ At(t, "check")
  /\ IF keyStat[loc[t].key] # "used" THEN Return(t)
     ELSE IF tls[t] # None THEN Goto(t, "find")
     ELSE loc' = [loc EXCEPT ![t].pc = "head", ![t].todo = heads]
  /\ UNCHANGED <<keyVars, headVars, contentVars, tls, mutex, tlsKey, histVars, script>>

WithHead(t) == loc' = [loc EXCEPT ![t].pc = "find", ![t].todo = <<>>, ![t].idx = 0]

\* try_get_ownership of one head after the other
TryHead(t) ==
  /\ At(t, "head") /\ loc[t].todo # <<>>
  /\ LET h == Head(loc[t].todo) IN
       IF own[h] = "notUsed"
       THEN /\ own' = [own EXCEPT ![h] = "used"]
            /\ tls' = [tls EXCEPT ![t] = h]
            /\ WithHead(t)
       ELSE /\ loc' = [loc EXCEPT ![t].todo = Tail(@)]
            /\ UNCHANGED <<own, tls>>
  /\ UNCHANGED <<keyVars, heads, made, contentVars, mutex, tlsKey, histVars, script>>

\* operator new of a head: memory that is never given back
NewHead(t) ==
  /\ At(t, "head") /\ loc[t].todo = <<>>
  /\ made' = made + 1
  /\ loc' = [loc EXCEPT ![t].pc = "link", ![t].idx = made + 1, ![t].todo = heads]
  /\ UNCHANGED <<keyVars, heads, own, contentVars, tls, mutex, tlsKey, histVars, script>>

PushHead(t) ==
  /\ At(t, "link")
  /\ IF heads = loc[t].todo
     THEN /\ heads' = <<loc[t].idx>> \o heads
          /\ tls' = [tls EXCEPT ![t] = loc[t].idx]
          /\ WithHead(t)
     ELSE /\ loc' = [loc EXCEPT ![t].todo = heads]
          /\ UNCHANGED <<heads, tls>>
  /\ UNCHANGED <<keyVars, made, own, contentVars, mutex, tlsKey, histVars, script>>

\* search_tls_unchk_key of the head; only its owner adds arrays to it.
FindContent(t) ==
  /\ At(t, "find")
  /\ LET h == tls[t]
         a == ArrayOf(loc[t].key)
     IN IF own[h] # "used" THEN arrays' = arrays /\ Return(t)
        ELSE /\ arrays' = IF In(a, arrays[h]) THEN arrays
                          ELSE [arrays EXCEPT ![h] = <<a>> \o @]
             /\ Goto(t, loc[t].op)
  /\ UNCHANGED <<keyVars, headVars, stat, data, tls, mutex, tlsKey, histVars, script>>

\* get_tls: the first access allocates the data.
GetContent(t) ==
  /\ At(t, "get")
  /\ LET h == tls[t]
         k == loc[t].key
         fresh == stat[h][k] = "uninitialized"
         d == IF fresh THEN <<t, param[k]>> ELSE data[h][k]
     IN /\ stat' = IF fresh THEN [stat EXCEPT ![h][k] = "used"] ELSE stat
        /\ data' = [data EXCEPT ![h][k] = d]
        /\ live' = IF fresh THEN live \cup {d} ELSE live
        /\ answer' = IF stat[h][k] = "destructing" THEN answer
                     ELSE [answer EXCEPT ![t] = [var |-> loc[t].var, data |-> d]]
  /\ Return(t)
  /\ UNCHANGED <<keyVars, headVars, arrays, tls, mutex, tlsKey, phase, script>>

\* set_tls: the user stores data of its own, which the deallocator will get.
SetContent(t) ==
  /\ At(t, "set")
  /\ LET h == tls[t]
         k == loc[t].key
         d == <<t, loc[t].var>>
     IN IF stat[h][k] = "destructing" THEN UNCHANGED <<stat, data, live>>
        ELSE /\ stat' = [stat EXCEPT ![h][k] = "used"]
             /\ data' = [data EXCEPT ![h][k] = d]
             /\ live' = (live \ {data[h][k]}) \cup {d}
  /\ Return(t)
  /\ UNCHANGED <<keyVars, headVars, arrays, tls, mutex, tlsKey, phase, answer, script>>

-----------------------------------------------------------------------------
(* Destroying one content, for release_key and at the end of a thread      *)

\* The content a destruction is at: a key of the thread's own head when the
\* thread ends, and the released key of any head otherwise.
Spot(t) == IF loc[t].op = "exit" THEN <<tls[t], Head(loc[t].todo) * ArraySize + loc[t].idx>>
           ELSE <<Head(loc[t].todo), loc[t].key>>
Onward(t, l) == IF l.op = "exit" THEN [l EXCEPT !.pc = "each", !.idx = @ + 1]
                ELSE [l EXCEPT !.pc = "walk", !.todo = Tail(@)]

\* The thread that moves the content from used to destructing calls the
\* deallocator, which may ask for the content of another object.
Destruct(t) ==
  /\ At(t, "destruct")
  /\ LET h == Spot(t)[1]
         k == Spot(t)[2]
         w == Uses[param[k]]
         after == [loc[t] EXCEPT !.pc = "clear"]
     IN IF stat[h][k] # "used"
        THEN loc' = [loc EXCEPT ![t] = Onward(t, @)] /\ UNCHANGED <<stat, live>>
        ELSE /\ stat' = [stat EXCEPT ![h][k] = "destructing"]
             /\ live' = live \ {data[h][k]}
             /\ loc' = [loc EXCEPT ![t] = IF w = None THEN after
                                         ELSE [Idle EXCEPT !.pc = "key", !.var = w, !.up = after]]
  /\ UNCHANGED <<keyVars, headVars, arrays, data, tls, mutex, tlsKey, phase, answer, script>>

Clear(t) ==
  /\ At(t, "clear")
  /\ stat' = [stat EXCEPT ![Spot(t)[1]][Spot(t)[2]] = "uninitialized"]
  /\ loc' = [loc EXCEPT ![t] = Onward(t, @)]
  /\ UNCHANGED <<keyVars, headVars, arrays, data, tls, mutex, tlsKey, histVars, script>>

-----------------------------------------------------------------------------
(* The destructor of an object, and release_key                            *)

\* ~dynamic_tls: nothing to release if no thread has used the object.
Destroy(t) ==
  /\ At(t, "destroy") /\ Lockable(t)
  /\ LET v == loc[t].var IN
       IF tlsKey[v] = None
       THEN phase' = [phase EXCEPT ![v] = "gone"] /\ Return(t) /\ UNCHANGED mutex
       ELSE /\ loc' = [loc EXCEPT ![t].pc = "release", ![t].key = tlsKey[v], ![t].back = "null"]
            /\ Lock(t) /\ phase' = phase
  /\ UNCHANGED <<keyVars, headVars, contentVars, tls, tlsKey, live, answer, script>>

\* Only one thread may release the key.
ReleaseKey(t) ==
  /\ At(t, "release") /\ Lockable(t)
  /\ LET k == loc[t].key IN
       IF keyStat[k] = "used"
       THEN keyStat' = [keyStat EXCEPT ![k] = "releasing"] /\ Lock(t) /\ Goto(t, "heads")
       ELSE Goto(t, loc[t].back) /\ UNCHANGED <<keyStat, mutex>>
  /\ UNCHANGED <<param, numFree, hint, keyChain, nextBase, headVars, contentVars, tls, tlsKey,
                 histVars, script>>

\* Faulty: only the head of the calling thread is gone through.
LoadHeadsOwnOnly(t) ==
  /\ At(t, "heads")
  /\ loc' = [loc EXCEPT ![t].pc = "walk", ![t].todo = IF tls[t] = None THEN <<>> ELSE <<tls[t]>>]
  /\ UNCHANGED <<keyVars, headVars, contentVars, tls, mutex, tlsKey, histVars, script>>

LoadHeads(t) ==
  /\ At(t, "heads")
  /\ loc' = [loc EXCEPT ![t].pc = "walk", ![t].todo = heads]
  /\ UNCHANGED <<keyVars, headVars, contentVars, tls, mutex, tlsKey, histVars, script>>

\* destruct_tls_by_key_release of one head after the other; a head that has no
\* owner has no contents either.
WalkHeads(t) ==
  /\ At(t, "walk") /\ loc[t].todo # <<>>
  /\ loc' = IF own[Head(loc[t].todo)] = "used" THEN [loc EXCEPT ![t].pc = "arrays"]
            ELSE [loc EXCEPT ![t].todo = Tail(@)]
  /\ UNCHANGED <<keyVars, headVars, contentVars, tls, mutex, tlsKey, histVars, script>>

WalkArrays(t) ==
  /\ At(t, "arrays")
  /\ loc' = IF In(ArrayOf(loc[t].key), arrays[Head(loc[t].todo)])
            THEN [loc EXCEPT ![t].pc = "destruct"]
            ELSE [loc EXCEPT ![t] = Onward(t, @)]
  /\ UNCHANGED <<keyVars, headVars, contentVars, tls, mutex, tlsKey, histVars, script>>

\* Faulty: the count does not go up again.
CountFreeForgotten(t) ==
  /\ At(t, "walk") /\ loc[t].todo = <<>>
  /\ Goto(t, "unused")
  /\ UNCHANGED <<keyVars, headVars, contentVars, tls, mutex, tlsKey, histVars, script>>

\* First the count, then the key: no thread may take it and count down before.
CountFree(t) ==
  /\ At(t, "walk") /\ loc[t].todo = <<>>
  /\ numFree' = [numFree EXCEPT ![ArrayOf(loc[t].key)] = @ + 1]
  /\ Goto(t, "unused")
  /\ UNCHANGED <<keyStat, param, hint, keyChain, nextBase, headVars, contentVars, tls, mutex,
                 tlsKey, histVars, script>>

FreeKey(t) ==
  /\ At(t, "unused")
  /\ keyStat' = [keyStat EXCEPT ![loc[t].key] = "notUsed"]
  /\ Unlock /\ Goto(t, loc[t].back)
  /\ UNCHANGED <<param, numFree, hint, keyChain, nextBase, headVars, contentVars, tls, tlsKey,
                 histVars, script>>

EndDestroy(t) ==
  /\ At(t, "null")
  /\ tlsKey' = [tlsKey EXCEPT ![loc[t].var] = None]
  /\ phase' = [phase EXCEPT ![loc[t].var] = "gone"]
  /\ Unlock /\ Return(t)
  /\ UNCHANGED <<keyVars, headVars, contentVars, tls, live, answer, script>>

-----------------------------------------------------------------------------
(* The end of a thread                                                     *)

\* ~tl_content_head
BeginExit(t) ==
  /\ At(t, "idle") /\ script[t] = <<>>
  /\ IF tls[t] = None THEN Goto(t, "gone") /\ UNCHANGED mutex
     ELSE /\ Lockable(t) /\ Lock(t)
          /\ loc' = [loc EXCEPT ![t] = [Idle EXCEPT !.pc = "each", !.op = "exit",
                                                    !.todo = arrays[tls[t]]]]
  /\ UNCHANGED <<keyVars, headVars, contentVars, tls, tlsKey, histVars, script>>

\* Faulty: the last key of an array is forgotten.
PassDoneEarly(l) == l.idx = ArraySize - 1

\* call_destructor_for_array_and_clear_data: the keys of one array of contents
\* after the other, once: no destruction reports that a second pass is needed.
PassDone(l) == l.idx = ArraySize

EachKey(t) ==
  /\ At(t, "each") /\ loc[t].todo # <<>>
  /\ loc' = IF PassDone(loc[t]) THEN [loc EXCEPT ![t].todo = Tail(@), ![t].idx = 0]
            ELSE IF keyStat[Spot(t)[2]] = "used" THEN [loc EXCEPT ![t].pc = "destruct"]
            ELSE [loc EXCEPT ![t].idx = @ + 1]
  /\ UNCHANGED <<keyVars, headVars, contentVars, tls, mutex, tlsKey, histVars, script>>

EndExit(t) ==
  /\ At(t, "each") /\ loc[t].todo = <<>>
  /\ own' = [own EXCEPT ![tls[t]] = "notUsed"]
  /\ Unlock /\ Goto(t, "gone")
  /\ UNCHANGED <<keyVars, heads, made, contentVars, tls, tlsKey, histVars, script>>

-----------------------------------------------------------------------------
FindKey(t) == \/ LoadKey(t) \/ ScanArrays(t) \/ TryArray(t) \/ ClaimKey(t) \/ CountKey(t)
              \/ FillKey(t) \/ NewArray(t) \/ PushArray(t) \/ PublishKey(t)
FindHead(t) == CheckKey(t) \/ TryHead(t) \/ NewHead(t) \/ PushHead(t)
Content(t) == FindContent(t) \/ GetContent(t) \/ SetContent(t) \/ Destruct(t) \/ Clear(t)
Release(t) == \/ Destroy(t) \/ ReleaseKey(t) \/ LoadHeads(t) \/ WalkHeads(t) \/ WalkArrays(t)
              \/ CountFree(t) \/ FreeKey(t) \/ EndDestroy(t)
Exit(t) == BeginExit(t) \/ EachKey(t) \/ EndExit(t)
Work(t) == FindKey(t) \/ FindHead(t) \/ Content(t) \/ Release(t) \/ Exit(t)

Next == \E t \in Threads : Begin(t) \/ Skip(t) \/ Work(t)
Spec == Init /\ [][Next]_vars

\* The scheduler runs every thread that has work left.
FairSpec == Spec /\ \A t \in Threads : WF_vars(Work(t)) /\ WF_vars(Begin(t) \/ Skip(t))

-----------------------------------------------------------------------------
(* What is checked                                                         *)

\* Every variable holds a value of its type.
TypeOK ==
  /\ keyStat \in [Keys -> {"notUsed", "releasing", "used"}]
  /\ param \in [Keys -> Vars \cup {None}]
  /\ numFree \in [Arrays -> 0 .. ArraySize]
  /\ hint \in [Arrays -> 0 .. ArraySize - 1]
  /\ nextBase \in 0 .. MaxArrays
  /\ keyChain \in Seq(0 .. nextBase - 1)
  /\ made \in 0 .. Cardinality(Heads) /\ heads \in Seq(1 .. made)
  /\ own \in [Heads -> {"used", "notUsed"}]
  /\ arrays \in [Heads -> Seq(Arrays)]
  /\ stat \in [Heads -> [Keys -> {"uninitialized", "used", "destructing"}]]
  /\ data \in [Heads -> [Keys -> Data \cup {None}]]
  /\ tls \in [Threads -> Heads \cup {None}]
  /\ mutex.owner \in Threads \cup {None} /\ mutex.depth \in 0 .. 3
  /\ tlsKey \in [Vars -> Keys \cup {None}]
  /\ phase \in [Vars -> {"alive", "dying", "gone"}]
  /\ live \subseteq Data

\* get_tls_instance returns what was allocated or set by the calling thread for
\* the object: "If a call of this I/F by a thread is first, this I/F will
\* allocate".  Heads, keys and contents are used again and again, by other
\* threads and for other objects.
OwnData == \A t \in Threads : answer[t] # None => answer[t].data = <<t, answer[t].var>>

\* The data allocated and not deallocated is what the contents in use hold, each
\* in a content of its own thread, which has not ended, under the key of its
\* object, which is not gone: neither the end of a thread nor the end of an
\* object leaves data behind or deallocates it twice.
\* This is about the code, which does both under one recursive mutex
\* (dynamic_tls.cpp:975), and more than its documentation grants: to destroy an
\* object while a thread ends is undefined by dynamic_tls.hpp:238 and :257, and
\* whether the destructor of an object calls the deallocator is denied at :232
\* and :251 and affirmed at :235 and :254.
\* There is one exception.  What a deallocator asks for at the end of a thread
\* may be created behind the walk over the keys, of which there is one only
\* (dynamic_tls.cpp:994): that datum outlives the thread.
InUse == {c \in Heads \X Keys : stat[c[1]][c[2]] = "used"}
Asked == {v \in Vars : \E w \in Vars : Uses[w] = v}
NothingLeftBehind ==
  /\ live = {data[c[1]][c[2]] : c \in InUse}
  /\ \A c \in InUse :
       LET t == data[c[1]][c[2]][1]
           v == data[c[1]][c[2]][2]
       IN \/ /\ tls[t] = c[1] /\ loc[t].pc # "gone"
             /\ param[c[2]] = v /\ keyStat[c[2]] # "notUsed" /\ phase[v] # "gone"
          \/ loc[t].pc = "gone" /\ v \in Asked

\* A deallocator runs while its object is there, for it uses the object: the
\* destructor of an object waits for the threads that end, and they for it.
\* The code keeps this although its documentation leaves the two at once
\* undefined (dynamic_tls.hpp:257).
DeallocatorHasObject ==
  \A h \in Heads, k \in Keys :
    stat[h][k] = "destructing" => phase[data[h][k][2]] # "gone" /\ keyStat[k] # "notUsed"

\* No unused key is hidden from allocate_key behind a count of zero: the count
\* runs ahead of the keys, never behind, in spite of claims and releases at once.
KeyCanBeFound ==
  \A a \in Arrays :
    Cardinality({k \in Keys : ArrayOf(k) = a /\ keyStat[k] = "notUsed"}) <= numFree[a]

\* The keys are in order: of their type, and none of the unused ones is lost.
KeysAreSound == TypeOK /\ KeyCanBeFound

\* Every call returns and every thread ends: nobody waits for the mutex forever.
AllEnd == <>(\A t \in Threads : At(t, "gone"))
=============================================================================
