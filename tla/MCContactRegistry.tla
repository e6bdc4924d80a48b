-------------------------- MODULE MCContactRegistry --------------------------
(***************************************************************************)
(* ContactRegistry for TLC.                                                *)
(***************************************************************************)
EXTENDS ContactRegistry, TLC

CONSTANTS i, j, x

MCCircleOrder == <<"family", "friends">>

\* Two contacts of the same friend, the first one with more to say, the second
\* one with a reference and another entry of the device.
TwoContacts ==
    i :> [NewContact(x, "unknown") EXCEPT
             !.devices = "laptop" :> 1, !.custom = "nickname" :> 1,
             !.fields = "phone" :> 1 @@ "avatar" :> 1 @@ "birthday" :> 1] @@
    j :> [NewContact(x, "circle") EXCEPT !.devices = "laptop" :> 2, !.refs = {"message"}]

Mix(owned, family, friends, book, ops, tasks, faults) ==
    [owned |-> owned, members |-> ("family" :> family @@ "friends" :> friends),
     contacts |-> book, ops |-> ops, tasks |-> tasks, faults |-> faults]

Drops == {"remove", "merge", "import"}

\* Commands on circles, from none and from two; contacts added while circles
\* change; any two commands on contacts; three of those that drop or replace
\* contacts; and starts of the application.
MCMixes == {
    Mix(FALSE, NoFile, NoFile, NoContacts, {"create", "join", "access", "identity"}, 3, 0),
    Mix(TRUE, {x}, {}, NoContacts, {"create", "join", "leave", "access"}, 3, 0),
    Mix(TRUE, {x}, {}, NoContacts, {"add", "join", "leave"}, 2, 1),
    Mix(TRUE, {}, {x}, TwoContacts, Drops \cup {"update", "add", "device", "undevice", "ref"}, 2, 1),
    Mix(TRUE, NoFile, NoFile, TwoContacts, Drops, 3, 0),
    Mix(TRUE, NoFile, NoFile, NoContacts, {"register"}, 3, 0),
    Mix(FALSE, NoFile, NoFile, NoContacts, {"start"}, 4, 0)}

Swap == Permutations(Actors)
=============================================================================
