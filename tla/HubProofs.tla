----------------------------- MODULE HubProofs -----------------------------
(***************************************************************************)
(* Proofs about the Telegram hub: its registry with the goroutines that    *)
(* save it, and the followers of a session with their cursors.             *)
(***************************************************************************)
EXTENDS MCRecords, TLAPS, WellFoundedInduction

-----------------------------------------------------------------------------
(* The registry *)

Requests == {"none", "register", "undone", "command", "stop", "exit"}
Process == [pc : {"idle", "persist", "write", "enqueue", "wait", "exit"},
            alias : Aliases \cup {NoOne}, snap : Registries, request : Requests]

\* A registration that was answered stands in a registry.
Standing(r) == \A k \in acked : r.sessions[k[1]] = k[2]

\* A registration that is being saved stands in memory, and in the copy that is written.
Registering(p) ==
    proc[p].request = "register" =>
        /\ proc[p].pc \in {"persist", "write"} /\ proc[p].alias \in Registered(mem)
        /\ proc[p].pc = "write" => proc[p].snap.sessions[proc[p].alias] = mem.sessions[proc[p].alias]

\* What is in memory, on disk, and in the copy of the one that writes; without a hub nobody does.
RegistryInv ==
    /\ phase = "down" => \A p \in Procs : proc[p] = Idle
    /\ Standing(mem) /\ Consistent(mem)
    /\ Standing(disk) /\ Consistent(disk)
    /\ \A p \in Procs :
          /\ Registering(p)
          /\ proc[p].pc = "write" => saver = p /\ Standing(proc[p].snap) /\ Consistent(proc[p].snap)

\* The empty registry is consistent, and a goroutine at rest serves no request.
LEMMA NothingRegistered ==
  /\ NoRegistry \in Registries /\ Consistent(NoRegistry)
  /\ Idle \in Process /\ Idle.pc = "idle" /\ Idle.request = "none" /\ Idle.alias = NoOne
<1>1. NoRegistry \in Registries
  BY DEF NoRegistry, Registries
<1>2. Consistent(NoRegistry)
  BY DEF NoRegistry, Consistent, Registered
<1>3. QED
  BY <1>1, <1>2 DEF Idle, Process, Requests

\* The goroutine of a change: it persists, or it goes on with a command.
LEMMA Entries ==
  ASSUME NEW a \in Aliases \cup {NoOne}, NEW request \in Requests
  PROVE  /\ Persisting(a, request) \in Process /\ Persisting(a, request).pc = "persist"
         /\ Persisting(a, request).alias = a /\ Persisting(a, request).request = request
         /\ ToEnqueue(a) \in Process /\ ToEnqueue(a).pc = "enqueue" /\ ToEnqueue(a).request = "none"
BY NothingRegistered DEF Persisting, ToEnqueue, Process

\* The fields of a registry.
LEMMA Fields ==
  ASSUME NEW r \in Registries
  PROVE  /\ r.sessions \in [Aliases -> Workspaces \cup {NoOne}]
         /\ r.selections \in [Actors -> Aliases \cup {NoOne}]
         /\ r.watch.aliases \subseteq Aliases /\ r.watch.excluded \subseteq Aliases
         /\ Registered(r) = {a \in Aliases : r.sessions[a] # NoOne}
BY DEF Registries, Registered

\* A session that takes a free alias, or its own again, keeps a registry consistent.
LEMMA SessionAdded ==
  ASSUME NEW r \in Registries, Consistent(r), NEW a \in Aliases, NEW w \in Workspaces,
         r.sessions[a] \in {NoOne, w}, \A b \in Aliases \ {a} : r.sessions[b] # w
  PROVE  LET new == [r EXCEPT !.sessions[a] = w]
         IN  /\ new \in Registries /\ Consistent(new) /\ a \in Registered(new)
             /\ \A b \in Registered(r) : new.sessions[b] = r.sessions[b]
<1> DEFINE new == [r EXCEPT !.sessions[a] = w]
<1>1. new \in Registries
  BY DEF Registries
<1>2. /\ new.sessions = [r.sessions EXCEPT ![a] = w] /\ new.selections = r.selections
      /\ new.watch = r.watch
  BY DEF Registries
<1> HIDE DEF new
<1>3. /\ new.sessions[a] = w /\ w # NoOne
      /\ \A b \in Aliases \ {a} : new.sessions[b] = r.sessions[b]
  BY <1>2, Fields, HubAssumption
<1>4. Registered(new) = Registered(r) \cup {a}
  BY <1>1, <1>3, Fields
<1>5. Consistent(new)
  BY <1>2, <1>3, <1>4, Fields DEF Consistent
<1>6. QED
  BY <1>1, <1>3, <1>4, <1>5, Fields DEF new

\* Selecting a registered session keeps a registry consistent.
LEMMA Selected ==
  ASSUME NEW r \in Registries, Consistent(r), NEW x \in Actors, NEW a \in Registered(r)
  PROVE  LET new == [r EXCEPT !.selections[x] = a]
         IN  new \in Registries /\ Consistent(new) /\ new.sessions = r.sessions
<1> DEFINE new == [r EXCEPT !.selections[x] = a]
<1>0. a \in Aliases
  BY Fields
<1>1. new \in Registries
  BY <1>0 DEF Registries
<1>2. /\ new.selections = [r.selections EXCEPT ![x] = a] /\ new.sessions = r.sessions
      /\ new.watch = r.watch
  BY DEF Registries
<1> HIDE DEF new
<1>3. \A y \in Actors : new.selections[y] \in {a, r.selections[y]}
  BY <1>2, Fields
<1>4. Registered(new) = Registered(r)
  BY <1>2 DEF Registered
<1>5. Consistent(new)
  BY <1>2, <1>3, <1>4 DEF Consistent
<1>6. QED
  BY <1>1, <1>2, <1>5 DEF new

\* Subscribing to registered sessions keeps a registry consistent.
LEMMA Watched ==
  ASSUME NEW r \in Registries, Consistent(r),
         NEW watch \in [all : BOOLEAN, aliases : SUBSET Aliases, excluded : SUBSET Aliases],
         watch.aliases \cup watch.excluded \subseteq Registered(r)
  PROVE  LET new == [r EXCEPT !.watch = watch]
         IN  new \in Registries /\ Consistent(new) /\ new.sessions = r.sessions
<1> DEFINE new == [r EXCEPT !.watch = watch]
<1>1. new \in Registries
  BY DEF Registries
<1>2. new.selections = r.selections /\ new.sessions = r.sessions /\ new.watch = watch
  BY DEF Registries
<1> HIDE DEF new
<1>3. Registered(new) = Registered(r)
  BY <1>2 DEF Registered
<1>4. Consistent(new)
  BY <1>2, <1>3 DEF Consistent
<1>5. QED
  BY <1>1, <1>2, <1>4 DEF new

\* With a session go the selections and subscriptions that name it.
LEMMA SessionRemoved ==
  ASSUME NEW r \in Registries, Consistent(r), NEW a \in Aliases
  PROVE  /\ Without(r, a) \in Registries /\ Consistent(Without(r, a))
         /\ Registered(Without(r, a)) = Registered(r) \ {a}
         /\ \A b \in Aliases : b # a => Without(r, a).sessions[b] = r.sessions[b]
<1> DEFINE new == Without(r, a)
           watch == [r.watch EXCEPT !.aliases = @ \ {a}, !.excluded = @ \ {a}]
<1>1. /\ watch \in [all : BOOLEAN, aliases : SUBSET Aliases, excluded : SUBSET Aliases]
      /\ watch.aliases = r.watch.aliases \ {a} /\ watch.excluded = r.watch.excluded \ {a}
  BY DEF Registries
<1> HIDE DEF watch
<1>2. /\ new.sessions = [r.sessions EXCEPT ![a] = NoOne] /\ new.watch = watch
      /\ new.selections = [x \in Actors |-> IF r.selections[x] = a THEN NoOne ELSE r.selections[x]]
      /\ new = [sessions |-> new.sessions, selections |-> new.selections, watch |-> new.watch]
  BY DEF Without, watch
<1> HIDE DEF new
<1>3. /\ new.sessions \in [Aliases -> Workspaces \cup {NoOne}]
      /\ new.selections \in [Actors -> Aliases \cup {NoOne}]
  BY <1>2, Fields
<1>4. new \in Registries
  BY <1>1, <1>2, <1>3 DEF Registries
<1>5. /\ new.sessions[a] = NoOne
      /\ \A b \in Aliases : b # a => new.sessions[b] = r.sessions[b]
  BY <1>2, Fields
<1>6. Registered(new) = Registered(r) \ {a}
  BY <1>4, <1>5, Fields
<1>7. \A x \in Actors : new.selections[x] \in (Registered(r) \ {a}) \cup {NoOne}
  BY <1>2 DEF Consistent
<1>8. Consistent(new)
  BY <1>1, <1>2, <1>5, <1>6, <1>7, Fields DEF Consistent
<1>9. QED
  BY <1>4, <1>5, <1>6, <1>8 DEF new

\* The goroutines have the type the lemmas speak of.
LEMMA ProcTyped == TypeOK => proc \in [Procs -> Process]
BY DEF TypeOK, Process, Requests

\* A goroutine begins with a change that keeps what is registered.
LEMMA ChangeStep ==
  ASSUME TypeOK, RegistryInv, NEW p \in Procs, NEW r \in Process, NEW changed \in Registries,
         Begins(p, changed), proc' = [proc EXCEPT ![p] = r], acked' = acked,
         Consistent(changed), \A a \in Registered(mem) : changed.sessions[a] = mem.sessions[a],
         r.pc \in {"persist", "enqueue"},
         r.request = "register" => r.pc = "persist" /\ r.alias \in Registered(changed)
  PROVE  TypeOK' /\ RegistryInv'
<1>1. /\ proc \in [Procs -> Process] /\ mem \in Registries /\ acked \subseteq Aliases \X Workspaces
  BY ProcTyped DEF TypeOK
<1>2. /\ mem' = changed /\ UNCHANGED <<phase, disk, saver, queue, worker>> /\ ops' \in 0..MaxOps
      /\ phase # "down"
  BY HubAssumption DEF Begins, Up, workVars, TypeOK
<1>3. proc' \in [Procs -> Process] /\ proc'[p] = r /\ \A q \in Procs : q # p => proc'[q] = proc[q]
  BY <1>1
<1>4. TypeOK'
  BY <1>2, <1>3 DEF TypeOK, Process, Requests
<1>5. \A a \in Registered(mem) : a \in Registered(changed)
  BY <1>1, Fields
<1>6. Standing(changed)'
  BY <1>1, Fields, HubAssumption DEF RegistryInv, Standing
<1>7. Standing(disk)' /\ Consistent(disk)' /\ Consistent(mem)'
  BY <1>2 DEF RegistryInv, Standing, Consistent, Registered
<1>8. ASSUME NEW q \in Procs
      PROVE  /\ Registering(q)'
             /\ proc'[q].pc = "write" => saver' = q /\ Standing(proc[q].snap)' /\ Consistent(proc'[q].snap)
  <2>1. CASE q = p
    BY <1>2, <1>3, <2>1 DEF Registering
  <2>2. CASE q # p
    <3>1. proc'[q] = proc[q]
      BY <1>3, <2>2
    <3>2. Registering(q) /\ (proc[q].pc = "write" => saver = q /\ Standing(proc[q].snap) /\ Consistent(proc[q].snap))
      BY DEF RegistryInv
    <3>3. QED
      BY <1>2, <1>5, <3>1, <3>2 DEF Registering, Standing
  <2>3. QED
    BY <2>1, <2>2
<1>9. QED
  BY <1>2, <1>4, <1>6, <1>7, <1>8 DEF RegistryInv, Consistent, Registered, Standing

\* A registration keeps the invariant: it is answered only after its copy is written.
LEMMA RegisterStep ==
  ASSUME TypeOK, RegistryInv, NEW h \in Handlers, Register(h)
  PROVE  TypeOK' /\ RegistryInv'
<1>1. PICK a \in Aliases, w \in Workspaces :
        /\ mem.sessions[a] \in {NoOne, w}
        /\ \A b \in Aliases \ {a} : mem.sessions[b] # w
        /\ Begins(h, [mem EXCEPT !.sessions[a] = w])
        /\ proc' = [proc EXCEPT ![h] = Persisting(a, "register")]
        /\ acked' = acked
  BY DEF Register
<1> DEFINE new == [mem EXCEPT !.sessions[a] = w]
<1>2. mem \in Registries /\ Consistent(mem)
  BY DEF TypeOK, RegistryInv
<1>3. /\ new \in Registries /\ Consistent(new) /\ a \in Registered(new)
      /\ \A b \in Registered(mem) : new.sessions[b] = mem.sessions[b]
  BY <1>1, <1>2, SessionAdded
<1>4. /\ Persisting(a, "register") \in Process /\ Persisting(a, "register").pc = "persist"
      /\ Persisting(a, "register").alias = a
  BY Entries DEF Requests
<1> HIDE DEF new
<1>5. h \in Procs
  BY DEF Procs
<1>6. QED
  BY <1>1, <1>3, <1>4, <1>5, ChangeStep DEF new

\* What the chat selects, subscribes to or sends keeps the invariant.
LEMMA ChatStep ==
  ASSUME TypeOK, RegistryInv,
         UpdateWatch \/ \E x \in Actors : UseSession(x) \/ Command(x)
  PROVE  TypeOK' /\ RegistryInv'
<1>0. mem \in Registries /\ Consistent(mem) /\ "chat" \in Procs
  BY DEF TypeOK, RegistryInv, Procs
<1>1. Registered(mem) \subseteq Aliases
  BY DEF Registered
<1>2. CASE UpdateWatch
  <2>0. PICK names \in SUBSET Registered(mem) :
          /\ \E watch \in NewWatches(names) : Begins("chat", [mem EXCEPT !.watch = watch])
          /\ proc' = [proc EXCEPT !["chat"] = Persisting(NoOne, "none")]
          /\ acked' = acked
    BY <1>2 DEF UpdateWatch
  <2>1. PICK watch \in NewWatches(names) : Begins("chat", [mem EXCEPT !.watch = watch])
    BY <2>0
  <2> DEFINE new == [mem EXCEPT !.watch = watch]
             Watches == [all : BOOLEAN, aliases : SUBSET Aliases, excluded : SUBSET Aliases]
  <2>2. watch \in Watches /\ watch.aliases \cup watch.excluded \subseteq Registered(mem)
    <3>1. mem.watch \in Watches /\ mem.watch.aliases \cup mem.watch.excluded \subseteq Registered(mem)
      BY <1>0 DEF Registries, Consistent
    <3>2. \A aliases, excluded \in SUBSET Registered(mem), all \in BOOLEAN :
            /\ Watch(all, aliases, excluded) \in Watches
            /\ Watch(all, aliases, excluded).aliases = aliases
            /\ Watch(all, aliases, excluded).excluded = excluded
      BY <1>1 DEF Watch
    <3>3. \/ \E all \in BOOLEAN : watch \in {Watch(all, {}, {}), Watch(all, names, {})}
          \/ watch = [mem.watch EXCEPT !.excluded = @ \cup names]
          \/ watch = [mem.watch EXCEPT !.aliases = @ \ names]
      BY Zenon DEF NewWatches
    <3>4. CASE \E all \in BOOLEAN : watch \in {Watch(all, {}, {}), Watch(all, names, {})}
      <4>1. {} \in SUBSET Registered(mem)
        OBVIOUS
      <4>2. PICK all \in BOOLEAN, aliases \in SUBSET Registered(mem) : watch = Watch(all, aliases, {})
        BY <3>4, <4>1
      <4> HIDE DEF Watches
      <4>3. QED
        BY <3>2, <4>1, <4>2
    <3>5. CASE watch = [mem.watch EXCEPT !.excluded = @ \cup names]
      <4>1. [mem.watch EXCEPT !.excluded = @ \cup names] \in Watches
        BY <1>1, <3>1
      <4>2. QED
        BY <3>1, <3>5, <4>1
    <3>6. CASE watch = [mem.watch EXCEPT !.aliases = @ \ names]
      <4>1. [mem.watch EXCEPT !.aliases = @ \ names] \in Watches
        BY <1>1, <3>1
      <4>2. QED
        BY <3>1, <3>6, <4>1
    <3>7. QED
      BY <3>3, <3>4, <3>5, <3>6
  <2>3. new \in Registries /\ Consistent(new) /\ new.sessions = mem.sessions
    BY <1>0, <2>2, Watched
  <2>4. /\ Persisting(NoOne, "none") \in Process /\ Persisting(NoOne, "none").pc = "persist"
        /\ Persisting(NoOne, "none").request = "none"
    BY Entries DEF Requests
  <2> HIDE DEF new
  <2>5. QED
    BY <1>0, <2>0, <2>1, <2>3, <2>4, ChangeStep DEF new
<1>3. ASSUME NEW x \in Actors, NEW a \in Registered(mem), NEW request \in {"none", "command"},
             Begins("chat", [mem EXCEPT !.selections[x] = a]),
             proc' = [proc EXCEPT !["chat"] = Persisting(a, request)], acked' = acked
      PROVE  TypeOK' /\ RegistryInv'
  <2> DEFINE new == [mem EXCEPT !.selections[x] = a]
  <2>1. new \in Registries /\ Consistent(new) /\ new.sessions = mem.sessions
    BY <1>0, Selected
  <2>2. /\ Persisting(a, request) \in Process /\ Persisting(a, request).pc = "persist"
        /\ Persisting(a, request).request = request
    BY <1>1, Entries DEF Requests
  <2> HIDE DEF new
  <2>3. QED
    BY <1>0, <1>3, <2>1, <2>2, ChangeStep DEF new
<1>4. ASSUME NEW a \in Registered(mem), Begins("chat", mem),
             proc' = [proc EXCEPT !["chat"] = ToEnqueue(a)], acked' = acked
      PROVE  TypeOK' /\ RegistryInv'
  <2>1. /\ ToEnqueue(a) \in Process /\ ToEnqueue(a).pc = "enqueue" /\ ToEnqueue(a).request = "none"
    BY <1>1, Entries DEF Requests
  <2>2. QED
    BY <1>0, <1>4, <2>1, ChangeStep
<1>5. CASE \E x \in Actors : UseSession(x)
  BY <1>3, <1>5 DEF UseSession
<1>6. CASE \E x \in Actors : Command(x)
  BY <1>3, <1>4, <1>6 DEF Command
<1>7. QED
  BY <1>2, <1>5, <1>6

\* What was answered for a session ends with it, in memory and in the next copy.
LEMMA UnregisterStep ==
  ASSUME TypeOK, RegistryInv, NEW h \in Handlers, Unregister(h)
  PROVE  TypeOK' /\ RegistryInv'
<1>1. PICK a \in Registered(mem) :
        /\ Begins(h, Without(mem, a))
        /\ proc' = [p \in Procs |->
                CASE p = h -> Persisting(a, "none")
                  [] proc[p].request = "register" /\ proc[p].alias = a ->
                        [proc[p] EXCEPT !.request = "undone"]
                  [] OTHER -> proc[p]]
        /\ acked' = {r \in acked : r[1] # a}
  BY DEF Unregister
<1>2. /\ mem \in Registries /\ Consistent(mem) /\ a \in Aliases /\ h \in Procs
      /\ proc \in [Procs -> Process] /\ acked \subseteq Aliases \X Workspaces
  BY ProcTyped DEF TypeOK, RegistryInv, Procs, Registered
<1>3. /\ mem' = Without(mem, a) /\ UNCHANGED <<phase, disk, saver, queue, worker>> /\ ops' \in 0..MaxOps
      /\ phase # "down"
  BY <1>1, HubAssumption DEF Begins, Up, workVars, TypeOK
<1>4. /\ mem' \in Registries /\ Consistent(mem')
      /\ Registered(mem') = Registered(mem) \ {a}
      /\ \A b \in Aliases : b # a => mem'.sessions[b] = mem.sessions[b]
  BY <1>2, <1>3, SessionRemoved
<1>5. /\ Persisting(a, "none") \in Process /\ Persisting(a, "none").pc = "persist"
      /\ Persisting(a, "none").request = "none"
  BY <1>2, Entries DEF Requests
<1>6. ASSUME NEW p \in Procs
      PROVE  /\ proc'[p] \in Process
             /\ proc'[p].pc = "write" => proc[p].pc = "write" /\ proc'[p].snap = proc[p].snap
             /\ proc'[p].request = "register" => proc'[p] = proc[p] /\ proc[p].alias # a
  <2> DEFINE r == [proc[p] EXCEPT !.request = "undone"]
  <2>1. r \in Process /\ r.pc = proc[p].pc /\ r.snap = proc[p].snap /\ r.request = "undone"
    BY <1>2 DEF Process, Requests
  <2>2. \/ p = h /\ proc'[p] = Persisting(a, "none")
        \/ proc'[p] = r
        \/ proc'[p] = proc[p] /\ ~(proc[p].request = "register" /\ proc[p].alias = a)
    BY <1>1
  <2> HIDE DEF r
  <2>3. QED
    BY <1>2, <1>5, <2>1, <2>2
<1>7. proc' \in [Procs -> Process]
  BY <1>1, <1>6
<1>8. TypeOK'
  BY <1>1, <1>3, <1>4, <1>7 DEF TypeOK, Process, Requests
<1>9. \A r : Standing(r) => Standing(r)'
  BY <1>1 DEF Standing
<1>10. Standing(mem)' /\ Standing(disk)'
  BY <1>1, <1>2, <1>3, <1>4 DEF RegistryInv, Standing
<1>11. ASSUME NEW p \in Procs
       PROVE  /\ Registering(p)'
              /\ proc'[p].pc = "write" => saver' = p /\ Standing(proc[p].snap)' /\ Consistent(proc'[p].snap)
  <2>1. Registering(p) /\ (proc[p].pc = "write" => saver = p /\ Standing(proc[p].snap) /\ Consistent(proc[p].snap))
    BY DEF RegistryInv
  <2>2. Registering(p)'
    <3> SUFFICES ASSUME proc'[p].request = "register"
                 PROVE  /\ proc'[p].pc \in {"persist", "write"} /\ proc'[p].alias \in Registered(mem')
                        /\ proc'[p].pc = "write" =>
                              proc'[p].snap.sessions[proc'[p].alias] = mem'.sessions[proc'[p].alias]
      BY DEF Registering, Registered
    <3>1. proc'[p] = proc[p] /\ proc[p].alias # a
      BY <1>6
    <3>2. proc[p].alias \in Registered(mem) /\ proc[p].alias \in Aliases
      BY <1>2, <2>1, <3>1, Fields DEF Registering
    <3>3. QED
      BY <1>4, <2>1, <3>1, <3>2 DEF Registering
  <2>3. QED
    BY <1>3, <1>6, <1>9, <2>1, <2>2 DEF Standing
<1>12. QED
  BY <1>3, <1>4, <1>8, <1>10, <1>11 DEF RegistryInv, Consistent, Registered

\* A goroutine moves on, and neither the registry nor the file changes.
LEMMA QuietStep ==
  ASSUME TypeOK, RegistryInv, mem' = mem, disk' = disk, saver' = saver, acked' = acked,
         phase' \in {phase, "stopping"}, phase # "down", ops' = ops,
         queue' \in [Aliases -> 0..QueueLimit], worker' \in [Aliases -> {"none", "idle", "busy"}],
         \/ proc' = proc
         \/ \E p \in Procs, r \in Process :
               /\ proc' = [proc EXCEPT ![p] = r]
               /\ r.pc # "write" /\ r.request # "register"
  PROVE  TypeOK' /\ RegistryInv'
<1>1. proc \in [Procs -> Process]
  BY ProcTyped
<1>2. /\ proc' \in [Procs -> Process]
      /\ \A q \in Procs : \/ proc'[q] = proc[q]
                          \/ proc'[q].pc # "write" /\ proc'[q].request # "register"
  BY <1>1
<1>3. TypeOK'
  BY <1>2 DEF TypeOK, Process, Requests
<1>4. \A q \in Procs :
        /\ Registering(q)'
        /\ proc'[q].pc = "write" => saver' = q /\ Standing(proc[q].snap)' /\ Consistent(proc'[q].snap)
  BY <1>2 DEF RegistryInv, Registering, Registered, Standing
<1>5. QED
  BY <1>3, <1>4 DEF RegistryInv, Standing, Consistent, Registered

\* A copy taken under persistMu has everything that was answered until then.
LEMMA TakeCopyStep ==
  ASSUME TypeOK, RegistryInv, NEW p \in Procs, TakeCopy(p)
  PROVE  TypeOK' /\ RegistryInv'
<1> DEFINE r == [proc[p] EXCEPT !.pc = "write", !.snap = mem]
<1>1. proc \in [Procs -> Process] /\ mem \in Registries /\ saver = NoOne
  BY ProcTyped DEF TypeOK, TakeCopy
<1>2. /\ r \in Process /\ r.pc = "write" /\ r.snap = mem
      /\ r.alias = proc[p].alias /\ r.request = proc[p].request
  BY <1>1 DEF Process
<1>3. /\ UNCHANGED <<phase, mem, disk, queue, worker, acked, ops>> /\ saver' = p /\ phase # "down"
      /\ proc' = [proc EXCEPT ![p] = r]
  BY <1>1 DEF TakeCopy, workVars, Up
<1> HIDE DEF r
<1>4. proc' \in [Procs -> Process] /\ proc'[p] = r /\ \A q \in Procs : q # p => proc'[q] = proc[q]
  BY <1>1, <1>2, <1>3
<1>5. TypeOK'
  BY <1>3, <1>4 DEF TypeOK, Process, Requests
<1>6. \A q \in Procs : proc[q].pc # "write"
  BY <1>1, HubAssumption DEF RegistryInv, Procs
<1>7. ASSUME NEW q \in Procs
      PROVE  /\ Registering(q)'
             /\ proc'[q].pc = "write" => saver' = q /\ Standing(proc[q].snap)' /\ Consistent(proc'[q].snap)
  <2>1. CASE q = p
    BY <1>2, <1>3, <1>4, <2>1 DEF RegistryInv, Registering, Registered, Standing
  <2>2. CASE q # p
    BY <1>3, <1>4, <1>6, <2>2 DEF RegistryInv, Registering, Registered
  <2>3. QED
    BY <2>1, <2>2
<1>8. QED
  BY <1>3, <1>5, <1>7 DEF RegistryInv, Standing, Consistent, Registered

\* The one that writes is the only one: what it has registered is in its copy, and stands.
LEMMA WriteStep ==
  ASSUME TypeOK, RegistryInv, NEW p \in Procs, Write(p)
  PROVE  TypeOK' /\ RegistryInv'
<1>1. /\ proc \in [Procs -> Process] /\ mem \in Registries /\ disk \in Registries
      /\ acked \subseteq Aliases \X Workspaces /\ proc[p].pc = "write"
      /\ proc[p] \in Process
  BY ProcTyped DEF TypeOK, Write
<1>2. /\ Registering(p) /\ saver = p
      /\ Standing(proc[p].snap) /\ Consistent(proc[p].snap) /\ proc[p].snap \in Registries
      /\ Standing(mem)
  BY <1>1 DEF RegistryInv, Process
<1> DEFINE new == <<proc[p].alias, mem.sessions[proc[p].alias]>>
<1>3. PICK written \in BOOLEAN :
        /\ disk' = IF written THEN proc[p].snap ELSE disk
        /\ acked' = IF written /\ proc[p].request = "register" THEN acked \cup {new} ELSE acked
  BY DEF Write
<1>4. /\ UNCHANGED <<phase, mem, queue, worker, ops>> /\ saver' = NoOne /\ phase # "down"
  BY DEF Write, workVars, Up
<1> DEFINE r == CASE proc[p].request = "stop" -> [Idle EXCEPT !.pc = "wait"]
                  [] proc[p].request = "exit" -> [Idle EXCEPT !.pc = "exit"]
                  [] proc[p].request = "command" -> ToEnqueue(proc[p].alias)
                  [] OTHER -> Idle
<1>5. r \in Process /\ r.pc # "write" /\ r.request # "register"
  <2>1. /\ [Idle EXCEPT !.pc = "wait"] \in Process /\ [Idle EXCEPT !.pc = "exit"] \in Process
        /\ [Idle EXCEPT !.pc = "wait"].pc = "wait" /\ [Idle EXCEPT !.pc = "exit"].pc = "exit"
        /\ [Idle EXCEPT !.pc = "wait"].request = "none" /\ [Idle EXCEPT !.pc = "exit"].request = "none"
    BY NothingRegistered DEF Process
  <2>2. /\ ToEnqueue(proc[p].alias) \in Process /\ ToEnqueue(proc[p].alias).pc = "enqueue"
        /\ ToEnqueue(proc[p].alias).request = "none"
    BY <1>1, Entries DEF Process, Requests
  <2>3. QED
    BY <2>1, <2>2, NothingRegistered
<1>6. proc' = [proc EXCEPT ![p] = r]
  BY <1>1 DEF Write
<1> HIDE DEF r
<1>7. proc' \in [Procs -> Process] /\ proc'[p] = r /\ \A q \in Procs : q # p => proc'[q] = proc[q]
  BY <1>1, <1>5, <1>6
<1>8. proc[p].request = "register" =>
        /\ new \in Aliases \X Workspaces /\ proc[p].snap.sessions[new[1]] = new[2]
        /\ mem.sessions[new[1]] = new[2]
  BY <1>1, <1>2, Fields DEF Registering
<1>9. acked' \subseteq Aliases \X Workspaces /\ disk' \in Registries
  BY <1>1, <1>2, <1>3, <1>8
<1>10. TypeOK'
  BY <1>4, <1>7, <1>9 DEF TypeOK, Process, Requests
<1>11. Standing(mem)' /\ Standing(disk)'
  <2>1. CASE acked' = acked
    BY <1>2, <1>3, <1>4, <2>1 DEF RegistryInv, Standing
  <2>2. CASE written /\ proc[p].request = "register"
    <3>1. disk' = proc[p].snap /\ acked' = acked \cup {new} /\ mem' = mem
      BY <1>3, <1>4, <2>2
    <3> HIDE DEF new
    <3>2. QED
      BY <1>2, <1>8, <2>2, <3>1 DEF Standing
  <2>3. QED
    BY <1>3, <2>1, <2>2
<1>12. Consistent(mem)' /\ Consistent(disk)'
  BY <1>2, <1>3, <1>4 DEF RegistryInv, Consistent, Registered
<1>13. \A q \in Procs : proc'[q].pc # "write" /\ Registering(q)'
  <2>1. \A q \in Procs : q # p => proc[q].pc # "write"
    BY <1>2 DEF RegistryInv
  <2>2. QED
    BY <1>4, <1>5, <1>7, <2>1 DEF RegistryInv, Registering, Registered
<1>14. QED
  BY <1>4, <1>10, <1>11, <1>12, <1>13 DEF RegistryInv

\* The end or the crash of the hub leaves what is on disk.
LEMMA DownStep ==
  ASSUME TypeOK, RegistryInv, Down
  PROVE  TypeOK' /\ RegistryInv'
<1>1. /\ UNCHANGED <<mem, disk, acked, ops>> /\ phase' = "down" /\ saver' = NoOne
      /\ proc' = [p \in Procs |-> Idle] /\ proc' \in [Procs -> Process]
      /\ queue' \in [Aliases -> 0..QueueLimit] /\ worker' \in [Aliases -> {"none", "idle", "busy"}]
  BY NothingRegistered, HubAssumption DEF Down
<1>2. TypeOK'
  BY <1>1 DEF TypeOK, Process, Requests
<1>3. \A p \in Procs : proc'[p].pc # "write" /\ Registering(p)'
  BY <1>1, NothingRegistered DEF Registering
<1>4. QED
  BY <1>1, <1>2, <1>3 DEF RegistryInv, Standing, Consistent, Registered

\* Queues, workers and the request to stop leave the registry alone.
LEMMA QuietActions ==
  ASSUME TypeOK, RegistryInv,
         Enqueue \/ StopRequested \/ WorkersEnd \/ \E a \in Aliases : WorkerTakes(a) \/ WorkerReplies(a)
  PROVE  TypeOK' /\ RegistryInv'
<1>0. Up
  BY NothingRegistered DEF RegistryInv, Procs, Up, Enqueue, StopRequested, WorkersEnd, WorkerTakes, WorkerReplies
<1>1. /\ "chat" \in Procs /\ "main" \in Procs /\ phase' \in {phase, "stopping"} /\ phase # "down"
      /\ UNCHANGED <<mem, disk, saver, acked, ops>>
  BY <1>0 DEF Procs, Up, Enqueue, StopRequested, WorkersEnd, WorkerTakes, WorkerReplies, workVars
<1>2. /\ queue \in [Aliases -> 0..QueueLimit] /\ worker \in [Aliases -> {"none", "idle", "busy"}]
      /\ QueueLimit \in Nat
  BY HubAssumption DEF TypeOK
<1>3. queue' \in [Aliases -> 0..QueueLimit] /\ worker' \in [Aliases -> {"none", "idle", "busy"}]
  <2>1. CASE Enqueue
    <3>1. \A n \in 0..QueueLimit : n < QueueLimit => n + 1 \in 0..QueueLimit
      BY <1>2
    <3>2. QED
      BY <1>2, <2>1, <3>1 DEF Enqueue
  <2>2. ASSUME NEW a \in Aliases, WorkerTakes(a) \/ WorkerReplies(a)
        PROVE  queue' \in [Aliases -> 0..QueueLimit] /\ worker' \in [Aliases -> {"none", "idle", "busy"}]
    <3>1. \A n \in 0..QueueLimit : n > 0 => n - 1 \in 0..QueueLimit
      BY <1>2
    <3>2. QED
      BY <1>2, <2>2, <3>1 DEF WorkerTakes, WorkerReplies
  <2>3. CASE StopRequested \/ WorkersEnd
    BY <1>2, <2>3 DEF StopRequested, WorkersEnd, workVars
  <2>4. QED
    BY <2>1, <2>2, <2>3
<1>4. \/ proc' = proc
      \/ \E p \in Procs, r \in Process :
            /\ proc' = [proc EXCEPT ![p] = r]
            /\ r.pc # "write" /\ r.request # "register"
  <2>1. /\ Persisting(NoOne, "stop") \in Process /\ Persisting(NoOne, "stop").pc = "persist"
        /\ Persisting(NoOne, "stop").request = "stop"
        /\ Persisting(NoOne, "exit") \in Process /\ Persisting(NoOne, "exit").pc = "persist"
        /\ Persisting(NoOne, "exit").request = "exit"
    BY Entries DEF Requests
  <2>2. \/ proc' = proc
        \/ proc' = [proc EXCEPT !["chat"] = Idle]
        \/ proc' = [proc EXCEPT !["main"] = Persisting(NoOne, "stop")]
        \/ proc' = [proc EXCEPT !["main"] = Persisting(NoOne, "exit")]
    BY DEF Enqueue, StopRequested, WorkersEnd, WorkerTakes, WorkerReplies
  <2>3. QED
    BY <1>1, <2>1, <2>2, NothingRegistered
<1>5. QED
  BY <1>1, <1>3, <1>4, QuietStep

\* Every step keeps the invariant of the registry.
LEMMA RegistryStep ==
  ASSUME TypeOK, RegistryInv, [Next]_vars
  PROVE  TypeOK' /\ RegistryInv'
<1>1. CASE UNCHANGED vars
  BY <1>1 DEF vars, TypeOK, RegistryInv, Registering, Standing, Consistent, Registered, Procs
<1>2. CASE Starts
  <2>1. TypeOK'
    BY <1>2 DEF Starts, workVars, TypeOK
  <2>2. Standing(mem)' /\ Consistent(mem)' /\ Standing(disk)' /\ Consistent(disk)'
    BY <1>2 DEF Starts, RegistryInv, Standing, Consistent, Registered
  <2>3. \A p \in Procs : proc'[p] = Idle
    BY <1>2 DEF Starts, RegistryInv
  <2>4. QED
    BY <2>1, <2>2, <2>3, NothingRegistered DEF RegistryInv, Registering
<1>3. CASE Exits \/ Crashes
  BY <1>3, DownStep DEF Exits, Crashes
<1>4. QED
  BY <1>1, <1>2, <1>3, RegisterStep, UnregisterStep, ChatStep, TakeCopyStep, WriteStep, QuietActions DEF Next

\* The registry in memory, on disk and in every copy has what was answered.
LEMMA RegistryInvariant == Spec => [](TypeOK /\ RegistryInv)
<1>1. Init => TypeOK /\ RegistryInv
  <2> SUFFICES ASSUME Init PROVE TypeOK /\ RegistryInv
    OBVIOUS
  <2>1. /\ mem = NoRegistry /\ disk = NoRegistry /\ acked = {} /\ saver = NoOne /\ phase = "running"
        /\ proc = [p \in Procs |-> Idle] /\ ops = 0
        /\ queue = [a \in Aliases |-> 0] /\ worker = [a \in Aliases |-> "none"]
    BY DEF Init
  <2>2. TypeOK
    BY <2>1, NothingRegistered, HubAssumption DEF TypeOK, Process, Requests
  <2>3. RegistryInv
    BY <2>1, NothingRegistered DEF RegistryInv, Registering, Standing
  <2>4. QED
    BY <2>2, <2>3
<1>2. TypeOK /\ RegistryInv /\ [Next]_vars => (TypeOK /\ RegistryInv)'
  BY RegistryStep
<1>3. QED
  BY <1>1, <1>2, PTL DEF Spec

\* Type correctness of the hub's registry (telegram_hub.go).
THEOREM RegistryTypes == Spec => []TypeOK
BY RegistryInvariant, PTL

\* telegram_hub.go:429: a registration that was answered with success is in the file that the
\* next hub starts from, whatever else is saved at the same time: copies are taken and written
\* by one goroutine at a time, and none of them is older than the answer.
THEOREM AckedSurvives == Spec => []AckedIsDurable
<1>1. RegistryInv => AckedIsDurable
  BY DEF RegistryInv, Standing, AckedIsDurable
<1>2. QED
  BY <1>1, RegistryInvariant, PTL

\* telegram_hub.go:648: in memory and on disk a workspace has one alias, and selections and
\* subscriptions name registered sessions only, across removals, failed writes and crashes.
THEOREM RegistryStaysConsistent == Spec => []RegistryConsistent
<1>1. RegistryInv => RegistryConsistent
  BY DEF RegistryInv, RegistryConsistent
<1>2. QED
  BY <1>1, RegistryInvariant, PTL

-----------------------------------------------------------------------------
(* The followers of a session *)

Record == [pc : {"none", "find", "ask", "notify", "save", "persist", "ended"},
           cancelled : BOOLEAN,
           target : 0..MaxInstances, cursor : Stream!Cursors, batch : SUBSET Stream!Events]

\* What is below a cursor is past, that is, it was sent or was gone; so is what is below a
\* notification of a batch, or it is in the batch itself.
Past == sent \cup gone

\* Every notification a cursor has passed is among the past ones.
Passed(cursor, past) == \A n \in 1..cursor.seq : [inst |-> cursor.inst, seq |-> n] \in past

\* A batch goes on where the cursor stands, without a gap.
BatchFollows(batch, cursor, past) ==
    \A e \in batch : e.inst = cursor.inst /\ Passed(e, past \cup batch)

\* A follower's cursor, and its batch while it sends it.
Follows(r, past) ==
    /\ Passed(r.cursor, past)
    /\ r.pc = "notify" <=> r.batch # {}
    /\ BatchFollows(r.batch, r.cursor, past)

\* The cursors in memory, on disk and of all followers have passed only past ones.
StreamInv ==
    /\ up => broker.inst > 0
    /\ Passed(hub.cursor, Past) /\ Passed(cursors.cursor, Past)
    /\ \A f \in Stream!Followers : Follows(follower[f], Past)

\* A non-empty set of naturals has a least element.
LEMMA LeastElement ==
  ASSUME NEW S, S \subseteq Nat, S # {}
  PROVE  \E u \in S : \A v \in S : u <= v
<1>1. IsWellFoundedOn(OpToRel(<, Nat), Nat)
  BY NatLessThanWellFounded
<1>2. PICK u \in S : \A v \in S : ~(<<v, u>> \in OpToRel(<, Nat))
  BY <1>1, WFMin
<1>3. \A v \in S : ~(v < u)
  BY <1>2 DEF OpToRel
<1>4. QED
  BY <1>3

\* A batch that is not empty has a first notification.
LEMMA FirstEvent ==
  ASSUME NEW batch, batch \subseteq Stream!Events, batch # {}
  PROVE  Stream!First(batch) \in batch /\ \A d \in batch : Stream!First(batch).seq <= d.seq
<1>1. \A e \in Stream!Events : e.seq \in Nat
  BY MCAssumption DEF Stream!Events, Stream!StreamAssumption
<1>2. {e.seq : e \in batch} \subseteq Nat /\ {e.seq : e \in batch} # {}
  BY <1>1
<1>3. PICK u \in {e.seq : e \in batch} : \A v \in {e.seq : e \in batch} : u <= v
  BY <1>2, LeastElement
<1>4. PICK e \in batch : \A d \in batch : e.seq <= d.seq
  BY <1>3
<1>5. QED
  BY <1>4, Zenon DEF Stream!First

\* Where a hub and a follower start.
LEMMA BeginningTyped ==
  /\ Stream!NoCursor \in Stream!Cursors /\ Stream!NoCursor.seq = 0
  /\ Stream!NewFollower \in Record /\ Stream!NewFollower.pc = "none"
  /\ Stream!NewFollower.batch = {} /\ Stream!NewFollower.cursor = Stream!NoCursor
BY MCAssumption DEF Stream!StreamAssumption, Stream!NoCursor, Stream!Cursors, Stream!NewFollower, Record

\* What was passed stays passed.
LEMMA PastGrows ==
  ASSUME NEW past, NEW new, past \subseteq new
  PROVE  /\ \A c : Passed(c, past) => Passed(c, new)
         /\ \A r : Follows(r, past) => Follows(r, new)
<1>1. \A c : Passed(c, past) => Passed(c, new)
  BY DEF Passed
<1>2. \A c, batch : Passed(c, past \cup batch) => Passed(c, new \cup batch)
  BY DEF Passed
<1>3. QED
  BY <1>1, <1>2 DEF Follows, BatchFollows

\* An answer brings what follows the cursor in the window, and the rest of it is gone.
LEMMA AnswerFollows ==
  ASSUME Stream!TypeOK, StreamInv, up, NEW r \in Record, Follows(r, Past)
  PROVE  LET cursor == IF broker.inst = r.cursor.inst THEN r.cursor
                       ELSE [inst |-> broker.inst, seq |-> 0]
             batch == Stream!Unread(r.cursor)
             past == Past \cup (Stream!Missed(r.cursor) \ sent)
         IN  /\ cursor \in Stream!Cursors /\ batch \subseteq Stream!Events
             /\ Stream!Missed(r.cursor) \subseteq Stream!Events
             /\ Passed(cursor, past) /\ BatchFollows(batch, cursor, past)
<1> DEFINE cursor == IF broker.inst = r.cursor.inst THEN r.cursor
                     ELSE [inst |-> broker.inst, seq |-> 0]
           batch == Stream!Unread(r.cursor)
           missed == Stream!Missed(r.cursor)
<1>1. /\ broker.inst \in 1..MaxInstances /\ broker.next \in 0..MaxEvents
      /\ r.cursor \in Stream!Cursors /\ r.cursor.seq \in 0..MaxEvents /\ r.cursor.inst \in 0..MaxInstances
      /\ MaxInstances \in Nat /\ MaxEvents \in Nat /\ Limit \in Nat
      /\ sent \subseteq Stream!Events /\ gone \subseteq Stream!Events
  BY MCAssumption DEF Stream!TypeOK, StreamInv, Record, Stream!Cursors, Stream!StreamAssumption
<1>2. cursor \in Stream!Cursors /\ cursor.inst = broker.inst
  BY <1>1 DEF Stream!Cursors
<1>3. Stream!After(r.cursor) \in Nat
  BY <1>1 DEF Stream!After
<1>4. \A n \in 1..broker.next :
        n > Stream!After(r.cursor) => Stream!Of(n) \in batch \cup missed
  BY DEF Stream!Unread, Stream!Missed
<1>5. \A e \in batch \cup missed : \E n \in 1..broker.next : e = Stream!Of(n)
  BY DEF Stream!Unread, Stream!Missed, Stream!Window
<1>6. \A n : Stream!Of(n) = [inst |-> broker.inst, seq |-> n]
  BY DEF Stream!Of
<1>7. batch \cup missed \subseteq Stream!Events
  BY <1>1, <1>5, <1>6 DEF Stream!Events
<1> HIDE DEF batch, missed
<1>8. \A n \in 1..broker.next : n <= Stream!After(r.cursor) => Stream!Of(n) \in sent \cup gone
  <2> SUFFICES ASSUME NEW n \in 1..broker.next, n <= Stream!After(r.cursor)
               PROVE  Stream!Of(n) \in sent \cup gone
    OBVIOUS
  <2>1. r.cursor.inst \in {0, broker.inst} /\ n \in 1..r.cursor.seq
    BY <1>1 DEF Stream!After
  <2>2. [inst |-> r.cursor.inst, seq |-> n] \in sent \cup gone
    BY <2>1 DEF Follows, Passed, Past
  <2>3. r.cursor.inst # 0
    BY <1>1, <2>2 DEF Stream!Events
  <2>4. QED
    BY <1>6, <2>1, <2>2, <2>3
<1>9. \A n \in 1..broker.next : Stream!Of(n) \in sent \cup gone \cup (missed \ sent) \cup batch
  BY <1>1, <1>3, <1>4, <1>8
<1>10. Passed(cursor, Past)
  BY <1>2 DEF Follows, Passed
<1>11. ASSUME NEW e \in batch
       PROVE  e.inst = cursor.inst /\ Passed(e, Past \cup (missed \ sent) \cup batch)
  <2>1. PICK k \in 1..broker.next : e = [inst |-> broker.inst, seq |-> k]
    BY <1>5, <1>6
  <2>2. \A n \in 1..k : n \in 1..broker.next
    BY <1>1
  <2>3. QED
    BY <1>2, <1>6, <1>9, <2>1, <2>2 DEF Passed, Past
<1> HIDE DEF cursor
<1>12. Passed(cursor, Past \cup (missed \ sent))
  BY <1>10, PastGrows
<1>13. BatchFollows(batch, cursor, Past \cup (missed \ sent))
  BY <1>11 DEF BatchFollows
<1>14. QED
  BY <1>2, <1>7, <1>12, <1>13 DEF batch, missed, cursor

\* A notification is sent: the next one after the cursor.
LEMMA SentFollows ==
  ASSUME NEW r \in Record, Follows(r, Past), r.batch # {}
  PROVE  LET e == Stream!First(r.batch)
         IN  /\ e \in r.batch /\ e.inst = r.cursor.inst
             /\ Passed(e, Past \cup {e})
             /\ BatchFollows(r.batch \ {e}, e, Past \cup {e})
<1> DEFINE e == Stream!First(r.batch)
<1>1. /\ r.batch \subseteq Stream!Events /\ e \in r.batch /\ \A d \in r.batch : e.seq <= d.seq
  BY FirstEvent DEF Record
<1> HIDE DEF e
<1>2. \A d \in Stream!Events : d.seq \in Nat /\ d = [inst |-> d.inst, seq |-> d.seq]
  BY MCAssumption DEF Stream!Events, Stream!StreamAssumption
<1>3. \A d \in r.batch : d.inst = r.cursor.inst /\ Passed(d, Past \cup r.batch)
  BY DEF Follows, BatchFollows
<1>4. ASSUME NEW n \in 1..e.seq
      PROVE  [inst |-> e.inst, seq |-> n] \in Past \cup {e}
  <2> DEFINE d == [inst |-> e.inst, seq |-> n]
  <2>1. d \in Past \cup r.batch /\ d.seq = n /\ e.seq \in Nat
    BY <1>1, <1>2, <1>3 DEF Passed
  <2>2. d \in r.batch => e.seq <= n
    BY <1>1, <2>1
  <2>3. d \in r.batch => n = e.seq
    BY <2>1, <2>2
  <2>4. QED
    BY <1>1, <1>2, <2>1, <2>3
<1>5. Past \cup r.batch = (Past \cup {e}) \cup (r.batch \ {e})
  BY <1>1
<1>6. BatchFollows(r.batch \ {e}, e, Past \cup {e})
  BY <1>1, <1>3, <1>5 DEF BatchFollows
<1>7. QED
  BY <1>1, <1>3, <1>4, <1>6 DEF Passed, e

\* What a step leaves to show, once nothing is forgotten of what is past.
LEMMA StreamKept ==
  ASSUME StreamInv, Past \subseteq Past', up' => broker'.inst > 0,
         hub'.cursor \in {hub.cursor, cursors.cursor, Stream!NoCursor} \cup {follower[f].cursor : f \in Stream!Followers},
         cursors'.cursor \in {hub.cursor, cursors.cursor},
         \A f \in Stream!Followers :
            \/ follower'[f].cursor \in {follower[f].cursor, hub.cursor, cursors.cursor, Stream!NoCursor}
               /\ follower'[f].pc # "notify" /\ follower'[f].batch = {}
            \/ /\ follower'[f].cursor = follower[f].cursor /\ follower'[f].batch = follower[f].batch
               /\ follower'[f].pc = "notify" <=> follower[f].pc = "notify"
            \/ Follows(follower'[f], Past')
  PROVE  StreamInv'
<1>1. /\ \A c : Passed(c, Past) => Passed(c, Past')
      /\ \A r : Follows(r, Past) => Follows(r, Past')
  BY PastGrows
<1>2. Passed(Stream!NoCursor, Past')
  BY BeginningTyped DEF Passed
<1>3. /\ Passed(hub.cursor, Past') /\ Passed(cursors.cursor, Past')
      /\ \A f \in Stream!Followers : Follows(follower[f], Past') /\ Passed(follower[f].cursor, Past')
  BY <1>1 DEF StreamInv, Follows
<1>4. Passed(hub'.cursor, Past') /\ Passed(cursors'.cursor, Past')
  BY <1>2, <1>3
<1>5. ASSUME NEW f \in Stream!Followers PROVE Follows(follower'[f], Past')
  <2>1. CASE /\ follower'[f].cursor \in {follower[f].cursor, hub.cursor, cursors.cursor, Stream!NoCursor}
             /\ follower'[f].pc # "notify" /\ follower'[f].batch = {}
    BY <1>2, <1>3, <2>1 DEF Follows, BatchFollows
  <2>2. CASE /\ follower'[f].cursor = follower[f].cursor /\ follower'[f].batch = follower[f].batch
             /\ follower'[f].pc = "notify" <=> follower[f].pc = "notify"
    BY <1>3, <2>2 DEF Follows
  <2>3. QED
    BY <2>1, <2>2
<1>6. QED
  BY <1>4, <1>5 DEF StreamInv

\* The followers and cursors have the types the lemmas speak of.
LEMMA StreamTyped ==
  ASSUME Stream!TypeOK
  PROVE  /\ follower \in [Stream!Followers -> Record]
         /\ hub.cursor \in Stream!Cursors /\ cursors.cursor \in Stream!Cursors
         /\ cursors \in [registered : BOOLEAN, cursor : Stream!Cursors]
         /\ hub \in [registered : BOOLEAN, cursor : Stream!Cursors, watcher : {0} \cup Stream!Followers]
BY DEF Stream!TypeOK, Record, Stream!NoFollower

\* The supervisor, the handlers and crashes leave the followers at rest or as they are.
LEMMA SupervisorStep ==
  ASSUME Stream!TypeOK, StreamInv,
         Stream!SupervisorStarts \/ Stream!SupervisorStops \/ Stream!Publish
  PROVE  Stream!TypeOK' /\ StreamInv'
<1>1. /\ UNCHANGED <<hubUp, hub, cursors, handler, follower, sent, gone>> /\ up' \in BOOLEAN
      /\ broker' \in [inst : 0..MaxInstances, next : 0..MaxEvents] /\ (up' => broker'.inst > 0)
  <2>1. broker \in [inst : 0..MaxInstances, next : 0..MaxEvents] /\ MaxInstances \in Nat /\ MaxEvents \in Nat
    BY MCAssumption DEF Stream!TypeOK, Stream!StreamAssumption
  <2>2. CASE Stream!SupervisorStarts
    BY <2>1, <2>2 DEF Stream!SupervisorStarts, Stream!hubVars, Stream!history
  <2>3. CASE Stream!SupervisorStops
    BY <2>1, <2>3 DEF Stream!SupervisorStops, Stream!hubVars, Stream!history
  <2>4. CASE Stream!Publish
    <3> DEFINE new == [broker EXCEPT !.next = @ + 1]
    <3>1. new \in [inst : 0..MaxInstances, next : 0..MaxEvents] /\ new.inst = broker.inst
      BY <2>1, <2>4 DEF Stream!Publish
    <3>2. broker' = new /\ up' = up /\ up
      BY <2>4 DEF Stream!Publish
    <3> HIDE DEF new
    <3>3. UNCHANGED <<hubUp, hub, cursors, handler, follower, sent, gone>> /\ up' \in BOOLEAN
      BY <2>4, Zenon DEF Stream!Publish, Stream!hubVars, Stream!history, Stream!TypeOK
    <3>4. QED
      BY <3>1, <3>2, <3>3 DEF StreamInv
  <2>5. QED
    BY <2>2, <2>3, <2>4
<1>2. Stream!TypeOK'
  BY <1>1 DEF Stream!TypeOK
<1>3. StreamInv'
  BY <1>1, StreamKept DEF Past
<1>4. QED
  BY <1>2, <1>3

\* syncSessionWatchers starts one follower with a cursor of the hub, or none.
LEMMA SyncEffect ==
  ASSUME Stream!TypeOK, StreamInv,
         NEW h \in [registered : BOOLEAN, cursor : Stream!Cursors, watcher : {0} \cup Stream!Followers],
         Stream!SyncWatchers(h)
  PROVE  /\ hub' \in [registered : BOOLEAN, cursor : Stream!Cursors, watcher : {0} \cup Stream!Followers]
         /\ hub'.cursor = h.cursor /\ follower' \in [Stream!Followers -> Record]
         /\ \A f \in Stream!Followers :
               \/ follower'[f] = follower[f]
               \/ follower'[f].cursor = h.cursor /\ follower'[f].pc = "find" /\ follower'[f].batch = {}
<1> DEFINE Hubs == [registered : BOOLEAN, cursor : Stream!Cursors, watcher : {0} \cup Stream!Followers]
           g == CHOOSE f \in Stream!Fresh : \A k \in Stream!Fresh : f <= k
<1>0. follower \in [Stream!Followers -> Record]
  BY StreamTyped
<1>1. CASE hub' = h /\ follower' = follower
  BY <1>0, <1>1
<1>2. CASE /\ Stream!Fresh # {} /\ hub' = [h EXCEPT !.watcher = g]
           /\ follower' = [follower EXCEPT ![g].pc = "find", ![g].cursor = h.cursor]
  <2>1. Stream!Fresh \subseteq Nat /\ Stream!Fresh \subseteq Stream!Followers
    BY MCAssumption DEF Stream!Fresh, Stream!Followers, Stream!StreamAssumption
  <2>2. g \in Stream!Fresh
    <3>1. \E f \in Stream!Fresh : \A k \in Stream!Fresh : f <= k
      BY <1>2, <2>1, LeastElement
    <3>2. QED
      BY <3>1, Zenon
  <2> HIDE DEF g
  <2>3. g \in Stream!Followers /\ follower[g].pc = "none" /\ follower[g].batch = {}
    BY <2>1, <2>2 DEF Stream!Fresh, StreamInv, Follows
  <2>4. hub' \in Hubs /\ hub'.cursor = h.cursor
    BY <1>2, <2>3
  <2> DEFINE r == [follower[g] EXCEPT !.pc = "find", !.cursor = h.cursor]
  <2>5. r \in Record /\ r.cursor = h.cursor /\ r.pc = "find" /\ r.batch = {}
    BY <1>0, <2>3 DEF Record
  <2>6. follower' = [follower EXCEPT ![g] = r]
    BY <1>0, <1>2, <2>3 DEF Record
  <2> HIDE DEF r
  <2>7. QED
    BY <1>0, <2>3, <2>4, <2>5, <2>6
<1>3. QED
  BY <1>1, <1>2 DEF Stream!SyncWatchers, Stream!NoFollower

\* Handlers, the crash of the hub and its start keep the invariant of the cursors.
LEMMA HandlerStep ==
  ASSUME Stream!TypeOK, StreamInv,
         \/ Stream!Register \/ Stream!Unregister \/ Stream!HandlerPersists \/ Stream!HandlerWatches
         \/ Stream!HubCrashes \/ Stream!HubStarts
  PROVE  Stream!TypeOK' /\ StreamInv'
<1> DEFINE Hubs == [registered : BOOLEAN, cursor : Stream!Cursors, watcher : {0} \cup Stream!Followers]
           Files == [registered : BOOLEAN, cursor : Stream!Cursors]
<1>0. follower \in [Stream!Followers -> Record] /\ hub \in Hubs /\ cursors \in Files
  BY StreamTyped
<1>1. UNCHANGED <<broker, up, sent, gone>>
  BY DEF Stream!Register, Stream!Unregister, Stream!HandlerPersists, Stream!HandlerWatches,
     Stream!HubCrashes, Stream!HubStarts, Stream!history
<1>2. handler' \in {"idle", "registered", "watch", "removed"}
  BY DEF Stream!Register, Stream!Unregister, Stream!HandlerPersists, Stream!HandlerWatches,
     Stream!HubCrashes, Stream!HubStarts, Stream!TypeOK
<1>3. hubUp' \in BOOLEAN
  BY Zenon DEF Stream!Register, Stream!Unregister, Stream!HandlerPersists, Stream!HandlerWatches,
     Stream!HubCrashes, Stream!HubStarts, Stream!TypeOK
<1>4. /\ cursors' \in Files /\ hub' \in Hubs /\ follower' \in [Stream!Followers -> Record]
      /\ hub'.cursor \in {hub.cursor, cursors.cursor, Stream!NoCursor}
      /\ cursors'.cursor \in {hub.cursor, cursors.cursor}
      /\ \A f \in Stream!Followers :
            \/ follower'[f].cursor \in {hub.cursor, cursors.cursor, Stream!NoCursor}
               /\ follower'[f].pc # "notify" /\ follower'[f].batch = {}
            \/ /\ follower'[f].cursor = follower[f].cursor /\ follower'[f].batch = follower[f].batch
               /\ follower'[f].pc = follower[f].pc
  <2>1. CASE Stream!Register
    <3> DEFINE new == [hub EXCEPT !.registered = TRUE]
    <3>1. new \in Hubs /\ new.cursor = hub.cursor
      BY <1>0
    <3>2. hub' = new /\ UNCHANGED <<cursors, follower>>
      BY <2>1 DEF Stream!Register
    <3> HIDE DEF new
    <3>3. QED
      BY <1>0, <3>1, <3>2
  <2>2. CASE Stream!Unregister
    <3> DEFINE new == [registered |-> FALSE, cursor |-> Stream!NoCursor, watcher |-> 0]
               r(f) == [follower[f] EXCEPT !.cancelled = @ \/ f = hub.watcher]
    <3>1. new \in Hubs /\ new.cursor = Stream!NoCursor
      BY BeginningTyped
    <3>2. /\ hub' = new /\ cursors' = cursors
          /\ follower' = [f \in Stream!Followers |-> r(f)]
      BY <2>2 DEF Stream!Unregister, Stream!NoFollower
    <3>3. ASSUME NEW f \in Stream!Followers
          PROVE  /\ r(f) \in Record /\ r(f).cursor = follower[f].cursor
                 /\ r(f).pc = follower[f].pc /\ r(f).batch = follower[f].batch
      <4>1. follower[f] \in Record
        BY <1>0
      <4>2. QED
        BY <4>1 DEF Record
    <3> HIDE DEF new, r
    <3>4. QED
      BY <1>0, <3>1, <3>2, <3>3
  <2>3. CASE Stream!HandlerPersists
    <3> DEFINE saved == [registered |-> hub.registered, cursor |-> hub.cursor]
    <3>1. cursors' \in {saved, cursors} /\ UNCHANGED <<hub, follower>>
      BY <2>3 DEF Stream!HandlerPersists, Stream!Saved
    <3>2. saved \in Files /\ saved.cursor = hub.cursor
      BY <1>0
    <3> HIDE DEF saved
    <3>3. QED
      BY <1>0, <3>1, <3>2
  <2>4. CASE Stream!HandlerWatches
    <3>1. Stream!SyncWatchers(hub) /\ cursors' = cursors
      BY <2>4 DEF Stream!HandlerWatches
    <3>2. QED
      BY <1>0, <3>1, SyncEffect
  <2>5. CASE Stream!HubCrashes
    <3> DEFINE ended == [Stream!NewFollower EXCEPT !.pc = "ended"]
    <3>1. ended \in Record /\ ended.pc = "ended" /\ ended.batch = {} /\ ended.cursor = Stream!NoCursor
      BY BeginningTyped DEF Record
    <3>2. /\ UNCHANGED <<hub, cursors>>
          /\ follower' = [f \in Stream!Followers |->
                IF follower[f].pc = "none" THEN Stream!NewFollower ELSE ended]
      BY <2>5 DEF Stream!HubCrashes
    <3> HIDE DEF ended
    <3>3. QED
      BY <1>0, <3>1, <3>2, BeginningTyped
  <2>6. CASE Stream!HubStarts
    <3> DEFINE h == [registered |-> cursors.registered, cursor |-> cursors.cursor, watcher |-> 0]
    <3>1. h \in Hubs /\ h.cursor = cursors.cursor
      BY <1>0
    <3>2. Stream!SyncWatchers(h) /\ cursors' = cursors
      BY <2>6 DEF Stream!HubStarts, Stream!NoFollower
    <3> HIDE DEF h
    <3>3. QED
      BY <1>0, <3>1, <3>2, SyncEffect
  <2>7. QED
    BY <2>1, <2>2, <2>3, <2>4, <2>5, <2>6
<1>5. Stream!TypeOK'
  BY <1>1, <1>2, <1>3, <1>4 DEF Stream!TypeOK, Record, Stream!NoFollower
<1>6. StreamInv'
  <2>1. up' => broker'.inst > 0
    BY <1>1 DEF StreamInv
  <2>2. QED
    BY <1>1, <1>4, <2>1, StreamKept DEF Past
<1>7. QED
  BY <1>5, <1>6

\* A follower goes on with what follows its cursor.
LEMMA StepKept ==
  ASSUME Stream!TypeOK, StreamInv, NEW f \in Stream!Followers, NEW r \in Record, Stream!Step(f, r),
         UNCHANGED <<broker, up, hubUp, handler>>,
         hub' \in [registered : BOOLEAN, cursor : Stream!Cursors, watcher : {0} \cup Stream!Followers],
         cursors' \in [registered : BOOLEAN, cursor : Stream!Cursors],
         hub'.cursor \in {hub.cursor, follower[f].cursor}, cursors'.cursor \in {hub.cursor, cursors.cursor},
         Past \subseteq Past', sent' \subseteq Stream!Events, gone' \subseteq Stream!Events,
         \/ r.cursor \in {follower[f].cursor, Stream!NoCursor} /\ r.pc # "notify" /\ r.batch = {}
         \/ Follows(r, Past')
  PROVE  Stream!TypeOK' /\ StreamInv'
<1>1. follower \in [Stream!Followers -> Record]
  BY StreamTyped
<1>2. /\ follower' \in [Stream!Followers -> Record] /\ follower'[f] = r
      /\ \A g \in Stream!Followers : g # f => follower'[g] = follower[g]
  BY <1>1 DEF Stream!Step
<1>3. Stream!TypeOK'
  BY <1>2 DEF Stream!TypeOK, Record, Stream!NoFollower
<1>4. StreamInv'
  <2>1. up' => broker'.inst > 0
    BY DEF StreamInv
  <2>2. QED
    BY <1>2, <2>1, StreamKept
<1>5. QED
  BY <1>3, <1>4

\* A follower keeps the invariant of the cursors, also one that was replaced.
LEMMA FollowStep ==
  ASSUME Stream!TypeOK, StreamInv, NEW f \in Stream!Followers, Stream!Follow(f)
  PROVE  Stream!TypeOK' /\ StreamInv'
<1> DEFINE Hubs == [registered : BOOLEAN, cursor : Stream!Cursors, watcher : {0} \cup Stream!Followers]
           Files == [registered : BOOLEAN, cursor : Stream!Cursors]
<1>0. /\ follower[f] \in Record /\ Follows(follower[f], Past) /\ hub \in Hubs /\ cursors \in Files
      /\ sent \subseteq Stream!Events /\ gone \subseteq Stream!Events
      /\ broker.inst \in 0..MaxInstances
  BY StreamTyped DEF StreamInv, Stream!TypeOK
<1>1. follower[f].pc # "notify" => follower[f].batch = {}
  BY <1>0 DEF Follows
<1>2. CASE Stream!FollowerEnds(f)
  <2> DEFINE r == [Stream!NewFollower EXCEPT !.pc = "ended"]
  <2>1. r \in Record /\ r.cursor = Stream!NoCursor /\ r.pc = "ended" /\ r.batch = {}
    BY BeginningTyped DEF Record
  <2>2. Stream!Step(f, r) /\ UNCHANGED <<broker, up, hubUp, hub, cursors, handler, sent, gone>>
    BY <1>2 DEF Stream!FollowerEnds, Stream!Ended, Stream!hubVars, Stream!history
  <2> HIDE DEF r
  <2>3. QED
    BY <1>0, <2>1, <2>2, StepKept DEF Past
<1>3. CASE Stream!FindSession(f) \/ Stream!AskFails(f)
  <2> DEFINE asks == [follower[f] EXCEPT !.pc = "ask", !.target = broker.inst]
             finds == [follower[f] EXCEPT !.pc = "find"]
  <2>1. /\ UNCHANGED <<broker, up, hubUp, hub, cursors, handler, sent, gone>>
        /\ follower[f].pc # "notify"
        /\ Stream!Step(f, asks) \/ Stream!Step(f, finds)
    BY <1>3 DEF Stream!FindSession, Stream!AskFails, Stream!hubVars, Stream!history
  <2>2. /\ asks \in Record /\ asks.cursor = follower[f].cursor /\ asks.pc # "notify" /\ asks.batch = follower[f].batch
        /\ finds \in Record /\ finds.cursor = follower[f].cursor /\ finds.pc # "notify"
        /\ finds.batch = follower[f].batch
    BY <1>0 DEF Record
  <2> HIDE DEF asks, finds
  <2>3. QED
    BY <1>0, <1>1, <2>1, <2>2, StepKept DEF Past
<1>4. CASE Stream!AskEvents(f)
  <2> DEFINE old == follower[f].cursor
             cursor == IF broker.inst = old.inst THEN old ELSE [inst |-> broker.inst, seq |-> 0]
             batch == Stream!Unread(old)
             missed == Stream!Missed(old)
             pc == CASE batch # {} -> "notify"
                     [] batch = {} /\ cursor # old -> "save"
                     [] OTHER -> "find"
             r == [follower[f] EXCEPT !.cursor = cursor, !.batch = batch, !.pc = pc]
  <2>1. /\ Stream!Step(f, r) /\ UNCHANGED <<broker, up, hubUp, hub, cursors, handler, sent>>
        /\ gone' = gone \cup (missed \ sent) /\ up
    BY <1>4 DEF Stream!AskEvents, Stream!hubVars
  <2>2. /\ cursor \in Stream!Cursors /\ batch \subseteq Stream!Events /\ missed \subseteq Stream!Events
        /\ Passed(cursor, Past \cup (missed \ sent)) /\ BatchFollows(batch, cursor, Past \cup (missed \ sent))
    BY <1>0, <2>1, AnswerFollows
  <2>3. pc \in {"notify", "save", "find"} /\ (pc = "notify" <=> batch # {})
    OBVIOUS
  <2> HIDE DEF cursor, batch, missed, pc
  <2>4. r \in Record /\ r.cursor = cursor /\ r.batch = batch /\ r.pc = pc
    BY <1>0, <2>2, <2>3 DEF Record
  <2> HIDE DEF r
  <2>5. Past' = Past \cup (missed \ sent) /\ gone' \subseteq Stream!Events
    BY <1>0, <2>1, <2>2 DEF Past
  <2>6. Follows(r, Past')
    BY <2>2, <2>3, <2>4, <2>5 DEF Follows
  <2>7. QED
    BY <1>0, <2>1, <2>4, <2>5, <2>6, StepKept
<1>5. CASE Stream!NotifySession(f)
  <2> DEFINE old == follower[f]
             e == Stream!First(old.batch)
             pc == IF old.batch = {e} THEN "save" ELSE "notify"
             r == [old EXCEPT !.cursor.seq = e.seq, !.batch = @ \ {e}, !.pc = pc]
  <2>1. /\ Stream!Step(f, r) /\ UNCHANGED <<broker, up, hubUp, hub, cursors, handler, gone>>
        /\ sent' = sent \cup {e} /\ old.pc = "notify"
    BY <1>5 DEF Stream!NotifySession, Stream!hubVars
  <2>2. old.batch # {} /\ old.batch \subseteq Stream!Events
    BY <1>0, <2>1 DEF Follows, Record
  <2>3. /\ e \in old.batch /\ e.inst = old.cursor.inst
        /\ Passed(e, Past \cup {e}) /\ BatchFollows(old.batch \ {e}, e, Past \cup {e})
    BY <1>0, <2>2, SentFollows
  <2> HIDE DEF e
  <2>4. pc \in {"notify", "save"} /\ (pc = "notify" <=> old.batch \ {e} # {})
    BY <2>3
  <2> HIDE DEF pc
  <2>5. /\ r \in Record /\ r.cursor.inst = e.inst /\ r.cursor.seq = e.seq
        /\ r.batch = old.batch \ {e} /\ r.pc = pc
    <3>1. e.seq \in 0..MaxEvents /\ old.cursor \in Stream!Cursors
      BY <1>0, <2>2, <2>3 DEF Stream!Events, Record
    <3>2. QED
      BY <1>0, <2>3, <2>4, <3>1 DEF Record, Stream!Cursors
  <2> HIDE DEF r
  <2>6. Past' = Past \cup {e} /\ sent' \subseteq Stream!Events
    BY <1>0, <2>1, <2>2, <2>3 DEF Past
  <2>7. Follows(r, Past')
    BY <2>3, <2>4, <2>5, <2>6 DEF Follows, Passed, BatchFollows
  <2>8. QED
    BY <1>0, <2>1, <2>5, <2>6, <2>7, StepKept
<1>6. CASE Stream!SaveCursor(f)
  <2> DEFINE r == [follower[f] EXCEPT !.pc = "persist"]
             saved == [hub EXCEPT !.cursor = follower[f].cursor]
  <2>1. /\ Stream!Step(f, r) /\ UNCHANGED <<broker, up, hubUp, cursors, handler, sent, gone>>
        /\ hub' = hub \/ hub' = saved
        /\ follower[f].pc # "notify"
    BY <1>6, Zenon DEF Stream!SaveCursor, Stream!history
  <2>2. /\ r \in Record /\ r.cursor = follower[f].cursor /\ r.pc # "notify" /\ r.batch = follower[f].batch
        /\ saved \in Hubs /\ saved.cursor = follower[f].cursor
    BY <1>0 DEF Record
  <2> HIDE DEF r, saved
  <2>3. QED
    BY <1>0, <1>1, <2>1, <2>2, StepKept DEF Past
<1>7. CASE Stream!FollowerPersists(f)
  <2> DEFINE r == [follower[f] EXCEPT !.pc = "find"]
             file == [registered |-> hub.registered, cursor |-> hub.cursor]
  <2>1. /\ Stream!Step(f, r) /\ UNCHANGED <<broker, up, hubUp, hub, handler, sent, gone>>
        /\ cursors' = cursors \/ cursors' = file
        /\ follower[f].pc # "notify"
    BY <1>7 DEF Stream!FollowerPersists, Stream!Saved, Stream!history
  <2>2. /\ r \in Record /\ r.cursor = follower[f].cursor /\ r.pc # "notify" /\ r.batch = follower[f].batch
        /\ file \in Files /\ file.cursor = hub.cursor
    BY <1>0 DEF Record
  <2> HIDE DEF r, file
  <2>3. QED
    BY <1>0, <1>1, <2>1, <2>2, StepKept DEF Past
<1>8. QED
  BY <1>2, <1>3, <1>4, <1>5, <1>6, <1>7 DEF Stream!Follow

\* No cursor ever passes over a notification.
LEMMA StreamInvariant == Stream!Spec => [](Stream!TypeOK /\ StreamInv)
<1>1. Stream!Init => Stream!TypeOK /\ StreamInv
  <2> SUFFICES ASSUME Stream!Init PROVE Stream!TypeOK /\ StreamInv
    OBVIOUS
  <2>1. /\ broker = [inst |-> 0, next |-> 0] /\ up = FALSE /\ hubUp = TRUE
        /\ hub = [registered |-> FALSE, cursor |-> Stream!NoCursor, watcher |-> 0]
        /\ cursors = [registered |-> FALSE, cursor |-> Stream!NoCursor]
        /\ handler = "idle" /\ follower = [f \in Stream!Followers |-> Stream!NewFollower]
        /\ sent = {} /\ gone = {}
    BY DEF Stream!Init, Stream!NoFollower
  <2>2. Stream!TypeOK
    <3>1. broker \in [inst : 0..MaxInstances, next : 0..MaxEvents]
      BY <2>1, MCAssumption DEF Stream!StreamAssumption
    <3>2. /\ hub \in [registered : BOOLEAN, cursor : Stream!Cursors, watcher : {0} \cup Stream!Followers]
          /\ cursors \in [registered : BOOLEAN, cursor : Stream!Cursors]
          /\ follower \in [Stream!Followers -> Record]
      BY <2>1, BeginningTyped
    <3>3. QED
      BY <2>1, <3>1, <3>2 DEF Stream!TypeOK, Record, Stream!NoFollower
  <2>3. Follows(Stream!NewFollower, Past) /\ Passed(Stream!NoCursor, Past)
    BY BeginningTyped DEF Follows, BatchFollows, Passed
  <2>4. StreamInv
    BY <2>1, <2>3 DEF StreamInv
  <2>5. QED
    BY <2>2, <2>4
<1>2. Stream!TypeOK /\ StreamInv /\ [Stream!Next]_Stream!vars => (Stream!TypeOK /\ StreamInv)'
  <2>1. ASSUME Stream!TypeOK, StreamInv, UNCHANGED Stream!vars
        PROVE  Stream!TypeOK' /\ StreamInv'
    <3>1. UNCHANGED <<broker, up, hubUp, hub, cursors, handler, follower, sent, gone>>
      BY <2>1 DEF Stream!vars
    <3>2. Stream!TypeOK'
      BY <2>1, <3>1 DEF Stream!TypeOK
    <3>3. StreamInv'
      BY <2>1, <3>1 DEF StreamInv, Past
    <3>4. QED
      BY <3>2, <3>3
  <2>2. ASSUME Stream!TypeOK, StreamInv, Stream!Next
        PROVE  Stream!TypeOK' /\ StreamInv'
    BY <2>2, SupervisorStep, HandlerStep, FollowStep DEF Stream!Next
  <2>3. QED
    BY <2>1, <2>2
<1>3. QED
  BY <1>1, <1>2, PTL DEF Stream!Spec

\* Type correctness of a session's notifications (control.go, telegram_hub.go).
THEOREM StreamTypes == Stream!Spec => []Stream!TypeOK
BY StreamInvariant, PTL

\* telegram_hub.go:743: no notification is passed over: below a cursor, be it a follower's, the
\* hub's or the saved one, every notification was sent or had left the broker's window.
THEOREM NonePassedOver == Stream!Spec => []NothingPassedOver
<1>1. StreamInv => NothingPassedOver
  <2>1. \A c : Passed(c, Past) => Stream!PassedOver(c) = {}
    BY DEF Passed, Past, Stream!PassedOver
  <2>2. QED
    BY <2>1 DEF StreamInv, Follows, NothingPassedOver, Stream!NothingPassedOver
<1>2. QED
  BY <1>1, StreamInvariant, PTL
=============================================================================
