-------------------------------- MODULE MCUi --------------------------------
(***************************************************************************)
(* The user interface's thread: its command line, its settings, and the    *)
(* mutexes its commands share with the other threads.  The three meet only *)
(* through the commands, which each of them enumerates, so a behaviour     *)
(* exercises one of them.                                                  *)
(***************************************************************************)
EXTENDS CommandLine, Settings, Locks

a == << "a" >>
b == << "b" >>
Cmd(name, kind) == [name |-> name, expand |-> kind]
MCCharSize == [ch \in {"a", " ", "/", "?", "="} |-> 1] @@ ("b" :> 2)
MCCommands == << Cmd(a, "factivate"), Cmd(a \o a, "set"), Cmd(a \o b, "toggle"), Cmd(b, "cd"),
                 Cmd(b \o a, "unbind"), Cmd(b \o b, "colorscheme"), Cmd(b \o b \o b, "quit") >>
MCNames == [kind \in {"option", "toggle", "filter", "theme", "context", "key", "file"} |->
               IF kind \in {"option", "context"} THEN << a \o b, b >> ELSE << a, a \o a >>]
MCHistory == << a \o a \o << " " >> \o b, b \o a \o << " " >> \o b \o << " " >> >>

MCContexts == << "common", "library" >>
MCKeys == << "a", "b" >>
MCCommandNames == << "quit", "seek" >>
MCTexts == ("quit" :> "quit") @@ ("seek +5" :> "seek") @@ ("junk" :> "none")
MCFilterNames == << "p", "q" >>
MCFilterTexts == ("tag" :> << >>) @@ ("p" :> << "p" >>) @@ ("p & q" :> << "p", "q" >>)
MCRc == << [cmd |-> "bind", args |-> << "common", "a", "seek +5" >>],
           [cmd |-> "unbind", args |-> << "common", "a" >>] >>

Init == ClInit /\ SetInit /\ LkInit
Next ==
    \/ changes = 0 /\ LkInit /\ ClNext /\ UNCHANGED << st, changes, holder, todo >>
    \/ keys = 0 /\ LkInit /\ SetNext /\ UNCHANGED << cl, keys, holder, todo >>
    \/ keys = 0 /\ changes = 0 /\ LkNext /\ UNCHANGED << cl, keys, st, changes >>
Spec == Init /\ [][Next]_<< cl, keys, st, changes, holder, todo >>
=============================================================================
