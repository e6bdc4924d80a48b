----------------------------- MODULE TrustCircles -----------------------------
(***************************************************************************)
(* The personal identity and the trust circles of src/core/identity.py and *)
(* the look-ups of src/core/access_control.py, as the commands of several  *)
(* processes use them at the same time: the prompt, the socket API, and    *)
(* the threads that answer a peer.  Everything is in files that nobody     *)
(* locks.  A circle's members file is opened for writing, which empties    *)
(* it, and filled afterwards: in between it is Torn, and a process that    *)
(* dies there leaves it so.                                                *)
(***************************************************************************)
EXTENDS Commands

CONSTANTS
    Friends,        \* identities of others, which circles may hold
    CircleOrder,    \* the names of the circles, sorted
    Resources       \* what an identity may ask for

Circles == {CircleOrder[i] : i \in 1 .. Len(CircleOrder)}

\* An actor stands for the identity it would generate.
People == Friends \cup Actors

ASSUME CirclesAssumption ==
    /\ Resources \subseteq {"/sync", "/sync/shared", "/compute", "/home", "/cmd", "/other"}
    /\ {Torn, NoFile} \cap People = {}
    /\ \A S \in SUBSET People : S # Torn /\ S # NoFile

VARIABLES
    identity,       \* the personal identity's file
    dirs,           \* the circles with a directory
    keyed,          \* the circles with an identity file
    members,        \* the members file of each circle
    me,             \* the personal identity in the actor's IdentityManager
    read,           \* the members file as the actor read it
    todo,           \* the circles its look-up has still to open
    held,           \* the listed circles that held who it looks up, all along
    met,            \* was who it looks up in a circle at some time during it?
    overtaken,      \* actors whose members file changed after they read it
    added           \* pairs <<circle, identity>> that an add has answered for

diskVars == <<identity, dirs, keyed, members>>
localVars == <<me, read, todo>>
watchVars == <<held, met, overtaken>>
circleVars == <<diskVars, localVars, watchVars, added>>

CircleTasks ==
    [op : {"create"}, circle : Circles]
    \cup [op : {"join", "leave"}, circle : Circles, who : Friends]
    \cup [op : {"access"}, who : People]
    \cup [op : {"idle", "identity"}]

CircleOps == {"create", "join", "leave", "access", "identity"}

Answers == {"none", "error", "personal", "circle", "unknown", "done", "refused", "granted"}

CirclesTypeOK ==
    /\ identity \in Actors \cup {NoFile, Torn}
    /\ dirs \subseteq Circles
    /\ keyed \subseteq dirs
    /\ \A c \in Circles : members[c] \in (SUBSET People) \cup {Torn, NoFile}
    /\ \A a \in Actors :
          /\ me[a] \in Actors \cup {NoFile}
          /\ read[a] \in (SUBSET People) \cup {Torn, NoFile}
          /\ todo[a] \subseteq Circles
          /\ held[a] \subseteq Circles
    /\ answer \in [Actors -> Answers]
    /\ met \in [Actors -> BOOLEAN]
    /\ overtaken \subseteq Actors
    /\ added \subseteq Circles \X People
    /\ crashes \in 0 .. MaxCrashes

Contains(file, who) == file \notin {Torn, NoFile} /\ who \in file

\* Circles may be there already, with friends in them.
CirclesInit ==
    /\ CommandsInit
    /\ identity \in {NoFile} \cup Actors
    /\ dirs \in SUBSET Circles
    /\ keyed = dirs
    /\ members \in {f \in [Circles -> (SUBSET Friends) \cup {NoFile}] :
                        \A c \in Circles : f[c] # NoFile <=> c \in dirs}
    /\ added = {p \in Circles \X Friends : Contains(members[p[1]], p[2])}
    /\ me = [a \in Actors |-> NoFile]
    /\ read = [a \in Actors |-> NoFile]
    /\ todo = [a \in Actors |-> {}]
    /\ held = [a \in Actors |-> {}]
    /\ met = [a \in Actors |-> FALSE]
    /\ overtaken = {}

-----------------------------------------------------------------------------
(* Beginning and end of a command.                                         *)

EntryStage(t) ==
    CASE t.op = "create" -> "mkdir"
      [] t.op = "join"   -> "dir"
      [] t.op = "leave"  -> "read"
      [] OTHER           -> "identity"

\* Every command and request that needs the personal identity makes an
\* IdentityManager of its own; the prompt keeps one for circle, which needs none.
Begin(a, t) ==
    /\ Enter(a, t, EntryStage(t))
    /\ me' = Put(me, a, NoFile)
    /\ UNCHANGED <<diskVars, read, todo, added>>

Return(a, result) ==
    /\ Finish(a, result)
    /\ read' = Put(read, a, NoFile)
    /\ todo' = Put(todo, a, {})

BeginCircleTask(a, ops) == \E t \in CircleTasks : t.op \in ops \ {"idle"} /\ Begin(a, t)

Crash(a) ==
    /\ Die(a)
    /\ read' = Put(read, a, NoFile)
    /\ todo' = Put(todo, a, {})
    /\ UNCHANGED <<diskVars, me, added>>

-----------------------------------------------------------------------------
(* The personal identity, and the trust level of another.                  *)

\* get_trust_level: the personal identity first, then the circles.
StartLookup(a, k) ==
    IF task[a].who = k
      THEN GoTo(a, "answered") /\ answer' = Put(answer, a, "personal")
      ELSE GoTo(a, "list") /\ UNCHANGED answer

\* The manager has the identity k.  A command on contacts loads them next.
Identified(a, k) ==
    /\ me' = Put(me, a, k)
    /\ IF task[a].op = "identity"
         THEN Return(a, "done")
         ELSE /\ IF task[a].op = "access" THEN StartLookup(a, k)
                                          ELSE GoTo(a, "load") /\ UNCHANGED answer
              /\ UNCHANGED <<task, read, todo>>

\* An identity that cannot be read from its file is None, which has no hash.
LoadIdentity(a) ==
    /\ at[a] = "identity"
    /\ CASE identity = NoFile -> GoTo(a, "generate") /\ UNCHANGED <<me, answer, task, read, todo>>
         [] identity = Torn   -> Return(a, "error") /\ UNCHANGED me
         [] OTHER             -> Identified(a, identity)
    /\ UNCHANGED <<diskVars, added, crashes>>

\* The file was missing when it was looked for: it is opened for writing now.
CreateIdentity(a) ==
    /\ at[a] = "generate"
    /\ identity' = Torn
    /\ GoTo(a, "keyfile")
    /\ UNCHANGED <<dirs, keyed, members, localVars, task, answer, added, crashes>>

WriteIdentity(a) ==
    /\ at[a] = "keyfile"
    /\ identity' = a
    /\ Identified(a, a)
    /\ UNCHANGED <<dirs, keyed, members, added, crashes>>

ListCircles(a) ==
    /\ at[a] = "list"
    /\ todo' = Put(todo, a, keyed)
    /\ GoTo(a, "look")
    /\ UNCHANGED <<diskVars, task, me, read, answer, added, crashes>>

\* The circles are looked in by the order of their names.
ComesFirst(c, S) ==
    \E n \in DOMAIN CircleOrder :
        c = CircleOrder[n] /\ \A k \in 1 .. n - 1 : CircleOrder[k] \notin S

\* Seeded fault: a members file that cannot be parsed is passed over.
LookPastTorn(a) ==
    /\ at[a] = "look"
    /\ \E c \in todo[a] :
          /\ ComesFirst(c, todo[a])
          /\ IF Contains(members[c], task[a].who)
               THEN /\ GoTo(a, "answered")
                    /\ answer' = Put(answer, a, "circle")
                    /\ UNCHANGED todo
               ELSE /\ todo' = Put(todo, a, todo[a] \ {c})
                    /\ UNCHANGED <<at, answer>>
    /\ UNCHANGED <<diskVars, task, me, read, added, crashes>>

\* One members file after the other, each as it is at that moment.
LookInCircle(a) ==
    /\ at[a] = "look"
    /\ \E c \in todo[a] :
          LET known == Contains(members[c], task[a].who)
          IN  /\ ComesFirst(c, todo[a])
              /\ IF members[c] = Torn \/ known
                   THEN /\ GoTo(a, "answered")
                        /\ answer' = Put(answer, a, IF known THEN "circle" ELSE "error")
                        /\ UNCHANGED todo
                   ELSE /\ todo' = Put(todo, a, todo[a] \ {c})
                        /\ UNCHANGED <<at, answer>>
    /\ UNCHANGED <<diskVars, task, me, read, added, crashes>>

NotFound(a) ==
    /\ at[a] = "look"
    /\ todo[a] = {}
    /\ GoTo(a, "answered")
    /\ answer' = Put(answer, a, "unknown")
    /\ UNCHANGED <<diskVars, task, me, read, todo, added, crashes>>

\* Seeded fault: what is shared is shared with everyone.
AllowedShared(level, resource) ==
    level = "personal" \/ resource = "/sync/shared"

\* Which trust level may do what.
Allowed(level, resource) ==
    \/ level = "personal" /\ resource # "/other"
    \/ level = "circle" /\ resource = "/sync/shared"

\* The request handlers answer an exception with an error or with nothing.
CheckAccess(a) ==
    /\ at[a] = "answered"
    /\ task[a].op = "access"
    /\ \E r \in Resources : Return(a, IF Allowed(answer[a], r) THEN "granted" ELSE "refused")
    /\ UNCHANGED <<diskVars, me, added, crashes>>

-----------------------------------------------------------------------------
(* Circles.                                                                *)

\* Seeded fault: the directory is not made.
MakeNoDirectory(a) ==
    /\ at[a] = "mkdir"
    /\ GoTo(a, "key")
    /\ UNCHANGED <<diskVars, task, answer, localVars, added, crashes>>

\* A circle that exists already gets a new identity and keeps its members.
MakeDirectory(a) ==
    /\ at[a] = "mkdir"
    /\ dirs' = dirs \cup {task[a].circle}
    /\ GoTo(a, "key")
    /\ UNCHANGED <<identity, keyed, members, task, answer, localVars, added, crashes>>

WriteKey(a) ==
    /\ at[a] = "key"
    /\ keyed' = keyed \cup {task[a].circle}
    /\ GoTo(a, "fresh")
    /\ UNCHANGED <<identity, dirs, members, task, answer, localVars, added, crashes>>

\* Seeded fault: the members file is started anew for a circle that has one.
CheckMembersNever(a) ==
    /\ at[a] = "fresh"
    /\ GoTo(a, "truncate")
    /\ read' = Put(read, a, members[task[a].circle])
    /\ UNCHANGED <<diskVars, task, me, todo, answer, added, crashes>>

CheckMembers(a) ==
    /\ at[a] = "fresh"
    /\ IF members[task[a].circle] = NoFile
         THEN GoTo(a, "truncate") /\ UNCHANGED <<task, read, todo, answer>>
         ELSE Return(a, "done")
    /\ UNCHANGED <<diskVars, me, added, crashes>>

FindCircle(a) ==
    /\ at[a] = "dir"
    /\ IF task[a].circle \in dirs
         THEN GoTo(a, "read") /\ UNCHANGED <<task, read, todo, answer>>
         ELSE Return(a, "refused")
    /\ UNCHANGED <<diskVars, me, added, crashes>>

\* The members to add to or to take from.  An add that finds its identity
\* there has nothing to write, and returns True.
ReadMembers(a) ==
    LET c == task[a].circle
        file == members[c]
        known == Contains(file, task[a].who)
        joins == task[a].op = "join"
    IN  /\ at[a] = "read"
        /\ \/ file = Torn /\ Return(a, "error") /\ UNCHANGED added
           \/ /\ file # Torn
              /\ joins <=> known
              /\ Return(a, IF joins THEN "done" ELSE "refused")
              /\ added' = IF joins THEN added \cup {<<c, task[a].who>>} ELSE added
           \/ /\ file # Torn
              /\ joins <=> ~known
              /\ read' = Put(read, a, file)
              /\ GoTo(a, "truncate")
              /\ UNCHANGED <<task, todo, answer, added>>
        /\ UNCHANGED <<diskVars, me, crashes>>

\* What the command writes: made from what it has read.
Contents(a) ==
    LET old == IF read[a] = NoFile THEN {} ELSE read[a]
    IN  CASE task[a].op = "create" -> {}
          [] task[a].op = "join"   -> old \cup {task[a].who}
          [] task[a].op = "leave"  -> old \ {task[a].who}

\* What an add has answered for is given up when it is removed from the
\* circle, and when a command that was overtaken writes: it knows only the
\* members it has read.
Forgone(a) ==
    {<<task[a].circle, x>> : x \in
        IF a \in overtaken THEN People \ Contents(a)
        ELSE IF task[a].op = "leave" THEN {task[a].who} ELSE {}}

\* open(..., "w")
Truncate(a) ==
    /\ at[a] = "truncate"
    /\ members' = Put(members, task[a].circle, Torn)
    /\ added' = added \ Forgone(a)
    /\ GoTo(a, "write")
    /\ UNCHANGED <<identity, dirs, keyed, task, answer, localVars, crashes>>

\* The file is filled when it is closed.
FillMembers(a) ==
    /\ at[a] = "write"
    /\ members' = Put(members, task[a].circle, Contents(a))
    /\ added' = (added \ Forgone(a)) \cup
                  IF task[a].op = "join" THEN {<<task[a].circle, task[a].who>>} ELSE {}
    /\ Return(a, "done")
    /\ UNCHANGED <<identity, dirs, keyed, me, crashes>>

-----------------------------------------------------------------------------

CircleStep(a) ==
    \/ LoadIdentity(a) \/ CreateIdentity(a) \/ WriteIdentity(a)
    \/ ListCircles(a) \/ LookInCircle(a) \/ NotFound(a) \/ CheckAccess(a)
    \/ MakeDirectory(a) \/ WriteKey(a) \/ CheckMembers(a)
    \/ FindCircle(a) \/ ReadMembers(a) \/ Truncate(a) \/ FillMembers(a)
    \/ Crash(a)

Looking == {"list", "look", "answered"}
Writing == {"truncate", "write"}

\* What is recorded with every step, of each look-up and each write under way.
Watch ==
    /\ held' = [a \in Actors |->
           IF at'[a] \notin Looking THEN {}
           ELSE {c \in keyed' : /\ members'[c] = Torn \/ Contains(members'[c], task'[a].who)
                                /\ at[a] \in Looking => c \in held[a]}]
    /\ met' = [a \in Actors |->
           /\ at'[a] \in Looking
           /\ \/ at[a] \in Looking /\ met[a]
              \/ \E c \in Circles : Contains(members'[c], task'[a].who)]
    /\ overtaken' = {a \in Actors :
           /\ {at[a], at'[a]} \subseteq Writing
           /\ \/ a \in overtaken
              \/ at'[a] = at[a] /\ members'[task[a].circle] # members[task[a].circle]}

CirclesNext ==
    /\ \E a \in Actors : BeginCircleTask(a, CircleOps) \/ CircleStep(a)
    /\ Watch

CirclesSpec == CirclesInit /\ [][CirclesNext]_<<circleVars, commandVars>>

-----------------------------------------------------------------------------

\* An identity that an add has answered for is in its circle's file, or the
\* file is being written or was left torn by a process that died, until it is
\* removed or commands overlap (add_to_circle, create_circle).
AddsAreKept ==
    \A p \in added : members[p[1]] = Torn \/ Contains(members[p[1]], p[2])

\* Who is in a listed circle all the time it is looked up is found, or the
\* look-up fails: it is never taken for unknown, whatever is created, added
\* and removed meanwhile.  Moving between circles is no such membership
\* (get_trust_level).
StandingMembersAreKnown ==
    \A a \in Actors : at[a] = "answered" /\ held[a] # {} => answer[a] # "unknown"

\* Access is granted to the personal identity, and of the rest only to who was
\* in some circle at some time during the look-up (check_access).
GrantsAreEarned ==
    \A a \in Actors :
        at[a] = "answered" /\ (\E r \in Resources : Allowed(answer[a], r))
          => task[a].who = me[a] \/ met[a]
=============================================================================
