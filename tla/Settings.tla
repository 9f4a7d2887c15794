------------------------------ MODULE Settings ------------------------------
(***************************************************************************)
(* Key bindings (keys.c), the list of bindings and unbound commands in the *)
(* settings view (help.c), filters (filters.c) and the autosave file that  *)
(* carries them over a restart (options.c).  The commands come from the    *)
(* user, from start-up files and from other threads under editable_mutex;  *)
(* each is one step.                                                       *)
(***************************************************************************)
EXTENDS Integers, Sequences, SequencesExt, FiniteSets, FiniteSetsExt

CONSTANTS
    Contexts, BindKeys,    \* key_context_names and names of key_table, sorted
    CommandNames,          \* names of commands, sorted
    Texts,                 \* texts that are bound: the command get_command finds, or "none"
    FilterNames,           \* sorted
    FilterTexts,           \* per text the user filters it names, from left to right
    Rc,                    \* the lines of ~/.cmus/rc
    MaxSettings            \* bound: commands

VARIABLES st, changes

-----------------------------------------------------------------------------
(* help.c: the bound rows and the rows of unbound commands.                *)

PositionIn(seq, x) == CHOOSE k \in DOMAIN seq : seq[k] = x
BoundCmp(a, b) ==
    \/ PositionIn(Contexts, a[1]) < PositionIn(Contexts, b[1])
    \/ a[1] = b[1] /\ PositionIn(BindKeys, a[2]) < PositionIn(BindKeys, b[2])
UnboundCmp(a, b) == PositionIn(CommandNames, a) < PositionIn(CommandNames, b)

(* list_add_sorted: after the last row that is not greater.                *)
AddBoundSorted(rows, r) ==
    LET at == Max({0} \cup {k \in DOMAIN rows : ~BoundCmp(r, rows[k])})
    IN  InsertAt(rows, at + 1, r)
AddUnboundSorted(rows, c) ==
    LET at == Max({0} \cup {k \in DOMAIN rows : ~UnboundCmp(c, rows[k])})
    IN  InsertAt(rows, at + 1, c)

help_add_unbound(s, c) == [s EXCEPT !.unbound = AddUnboundSorted(@, c)]

(* The first row of the command, if there is one.                          *)
help_remove_unbound(s, c) == [s EXCEPT !.unbound = RemoveFirst(@, c)]

help_add_all_unbound(s) ==
    FoldLeft(LAMBDA t, c : IF t.bc[c] = 0 THEN help_add_unbound(t, c) ELSE t, s, CommandNames)

-----------------------------------------------------------------------------
(* keys.c.                                                                 *)

find_binding(s, ctx, key) == {k \in DOMAIN s.key_bindings[ctx] : s.key_bindings[ctx][k].key = key}

key_unbind(s, ctx, key) ==
    IF find_binding(s, ctx, key) = {} THEN s
    ELSE LET at == Min(find_binding(s, ctx, key))
             c  == Texts[s.key_bindings[ctx][at].cmd]
             t  == [s EXCEPT !.key_bindings[ctx] = RemoveAt(@, at),
                             !.bound = RemoveFirst(@, << ctx, key >>)]
             u  == IF c = "none" THEN t ELSE [t EXCEPT !.bc[c] = @ - 1]
         IN  IF c = "none" \/ u.bc[c] # 0 THEN u ELSE help_add_unbound(u, c)

(* Puts a binding where its key belongs, and its row and count.            *)
Bound(t, ctx, key, text) ==
    LET list == t.key_bindings[ctx]
        at   == Max({0} \cup {k \in DOMAIN list : PositionIn(BindKeys, list[k].key) <= PositionIn(BindKeys, key)})
        c    == Texts[text]
        u    == [t EXCEPT !.key_bindings[ctx] = InsertAt(@, at + 1, [key |-> key, cmd |-> text]),
                          !.bound = AddBoundSorted(@, << ctx, key >>)]
        v    == IF c = "none" THEN u ELSE [u EXCEPT !.bc[c] = @ + 1]
    IN  IF c = "none" \/ v.bc[c] # 1 THEN v ELSE help_remove_unbound(v, c)

BindOverOld(s, ctx, key, text, force) ==
    IF find_binding(s, ctx, key) # {} /\ ~force THEN s ELSE Bound(s, ctx, key, text)

key_bind(s, ctx, key, text, force) ==
    IF find_binding(s, ctx, key) # {} /\ ~force THEN s
    ELSE Bound(key_unbind(s, ctx, key), ctx, key, text)

-----------------------------------------------------------------------------
(* filters.c.  lib: the filters the library's expression was made of, with *)
(* their texts; anon: the text of an anonymous one.                        *)

find_filter(s, name) == {k \in DOMAIN s.filters : s.filters[k].name = name}

(* expr_check_leaves with get_filter: seen are the filters visited so far, *)
(* also those visited beside, not above.                                   *)
RECURSIVE Visit(_, _, _)
Visit(s, names, v) ==
    IF names = << >> \/ ~v.ok THEN v
    ELSE LET k == find_filter(s, Head(names))
         IN  IF k = {} \/ Head(names) \in v.seen THEN [v EXCEPT !.ok = FALSE]
             ELSE LET below == Visit(s, FilterTexts[s.filters[Min(k)].filter],
                                     [v EXCEPT !.seen = @ \cup {Head(names)}])
                  IN  Visit(s, Tail(names), below)

CheckDirectOnly(s, names, seen) ==
    \A name \in ToSet(names) : find_filter(s, name) # {} /\ name \notin seen

expr_check_leaves(s, names, seen) == Visit(s, names, [ok |-> TRUE, seen |-> seen]).ok

Chosen(s) == SelectSeq(s.filters, LAMBDA f : f.sel_stat # "ignore")
Leaves(s) == FlattenSeq([k \in DOMAIN Chosen(s) |-> FilterTexts[Chosen(s)[k].filter]])

filters_activate(s) ==
    IF ~expr_check_leaves(s, Leaves(s), {f.name : f \in ToSet(Chosen(s))}) THEN s
    ELSE [s EXCEPT !.filters = [k \in DOMAIN @ |-> [@[k] EXCEPT !.act_stat = s.filters[k].sel_stat]],
                   !.lib = {<< f.name, f.filter, f.sel_stat >> : f \in ToSet(Chosen(s))}]

(* names: the status per filter named.                                     *)
filters_activate_names(s, names) ==
    IF \E n \in DOMAIN names : find_filter(s, n) = {} THEN s
    ELSE filters_activate([s EXCEPT !.filters = [k \in DOMAIN @ |->
             [@[k] EXCEPT !.sel_stat = IF s.filters[k].name \in DOMAIN names
                                       THEN names[s.filters[k].name] ELSE "ignore"]]])

NewFilter(name, text) == [name |-> name, filter |-> text, act_stat |-> "ignore", sel_stat |-> "ignore"]

(* The filters with one added or replaced, in order.                       *)
Placed(s, filter) ==
    LET pos(f) == PositionIn(FilterNames, f.name)
    IN  SelectSeq(s.filters, LAMBDA f : pos(f) < pos(filter)) \o << filter >> \o
        SelectSeq(s.filters, LAMBDA f : pos(f) > pos(filter))

(* The library goes on with the filter it has.                             *)
do_filters_set_filter(s, name, text) == [s EXCEPT !.filters = Placed(s, NewFilter(name, text))]

filters_set_anonymous(s, text) ==
    IF ~expr_check_leaves(s, FilterTexts[text], {}) THEN s
    ELSE [s EXCEPT !.filters = [k \in DOMAIN @ |-> [@[k] EXCEPT !.act_stat = "ignore"]],
                   !.lib = {<< "anonymous", text, "yes" >>}]

(* :filter without an argument.                                            *)
FilterNothing(s) ==
    [s EXCEPT !.filters = [k \in DOMAIN @ |-> [@[k] EXCEPT !.act_stat = "ignore"]], !.lib = {}]

Toggled == ("ignore" :> "yes") @@ ("yes" :> "no") @@ ("no" :> "ignore")
filters_toggle_filter(s, k) == [s EXCEPT !.filters[k].sel_stat = Toggled[@]]

filters_delete_filter(s, k) == [s EXCEPT !.filters = RemoveAt(@, k)]

-----------------------------------------------------------------------------
(* options.c: the autosave file, a list of commands.                       *)

Line(cmd, args) == [cmd |-> cmd, args |-> args]

BindLines(s) == FlattenSeq([n \in DOMAIN Contexts |->
    LET l == s.key_bindings[Contexts[n]]
    IN  [k \in DOMAIN l |-> Line("bind", << Contexts[n], l[k].key, l[k].cmd >>)]])

FilterLines(s) ==
    [k \in DOMAIN s.filters |-> Line("fset", << s.filters[k].name, s.filters[k].filter >>)]
Active(s) == SelectSeq(s.filters, LAMBDA f : f.act_stat # "ignore")
ActivateLine(s) ==
    Line("factivate", [n \in {f.name : f \in ToSet(Active(s))} |-> s.filters[Min(find_filter(s, n))].act_stat])

ExitActivatesFirst(s) == BindLines(s) \o << ActivateLine(s) >> \o FilterLines(s)

options_exit(s) == BindLines(s) \o FilterLines(s) \o << ActivateLine(s) >>

run_command(s, line) ==
    CASE line.cmd = "bind" -> key_bind(s, line.args[1], line.args[2], line.args[3], FALSE)
      [] line.cmd = "unbind" -> key_unbind(s, line.args[1], line.args[2])
      [] line.cmd = "fset" -> do_filters_set_filter(s, line.args[1], line.args[2])
      [] line.cmd = "factivate" -> filters_activate_names(s, line.args)

Empty ==
    [key_bindings |-> [c \in ToSet(Contexts) |-> << >>], bc |-> [c \in ToSet(CommandNames) |-> 0],
     bound |-> << >>, unbound |-> << >>, filters |-> << >>, lib |-> {}, twice |-> {}]

(* twice: commands that the files unbound before the rows of all unbound   *)
(* commands were added.                                                    *)
options_load(autosave) ==
    LET s == FoldLeft(run_command, Empty, autosave \o Rc)
    IN  [help_add_all_unbound(s) EXCEPT !.twice = ToSet(s.unbound)]

-----------------------------------------------------------------------------
cmd_bind(ctx, key, text, force) == st' = key_bind(st, ctx, key, text, force)
cmd_unbind(ctx, key) == st' = key_unbind(st, ctx, key)
cmd_fset(name, text) == st' = do_filters_set_filter(st, name, text)
cmd_factivate(names) == st' = filters_activate_names(st, names)
cmd_filter(text) == st' = filters_set_anonymous(st, text)
cmd_filter_off == st' = FilterNothing(st)
WinActivate == st' = filters_activate(st)
WinToggle(k) == st' = filters_toggle_filter(st, k)
WinRemove(k) == st' = filters_delete_filter(st, k)
HelpRemove(r) == st' = key_unbind(st, r[1], r[2])
Restart == st' = options_load(options_exit(st))

SetInit == st = options_load(<< >>) /\ changes = 0

Change ==
    \/ \E ctx \in ToSet(Contexts), key \in ToSet(BindKeys) :
          \/ \E text \in DOMAIN Texts, force \in BOOLEAN : cmd_bind(ctx, key, text, force)
          \/ cmd_unbind(ctx, key)
    \/ \E name \in ToSet(FilterNames), text \in DOMAIN FilterTexts : cmd_fset(name, text)
    \/ \E on \in SUBSET ToSet(FilterNames), how \in {"yes", "no"} : cmd_factivate([n \in on |-> how])
    \/ \E text \in DOMAIN FilterTexts : cmd_filter(text)
    \/ cmd_filter_off \/ WinActivate \/ Restart
    \/ \E k \in DOMAIN st.filters : WinToggle(k) \/ WinRemove(k)
    \/ \E r \in ToSet(st.bound) : HelpRemove(r)

SetNext == changes < MaxSettings /\ changes' = changes + 1 /\ Change

-----------------------------------------------------------------------------
(* Properties.                                                             *)

Bindings(s) == {<< ctx, key >> \in ToSet(Contexts) \X ToSet(BindKeys) : find_binding(s, ctx, key) # {}}
TextAt(s, r) == s.key_bindings[r[1]][Min(find_binding(s, r[1], r[2]))].cmd

(* The settings view shows the bindings there are, each once and in order, *)
(* and the commands no key runs; bc counts the keys of a command.  A       *)
(* command whose last binding the start-up files removed is listed once    *)
(* more than it should.                                                    *)
HelpExact ==
    /\ ToSet(st.bound) = Bindings(st) /\ IsInjective(st.bound)
    /\ \A k \in 1 .. Len(st.bound) - 1 : BoundCmp(st.bound[k], st.bound[k + 1])
    /\ \A ctx \in ToSet(Contexts), key \in ToSet(BindKeys) : Cardinality(find_binding(st, ctx, key)) <= 1
    /\ \A c \in ToSet(CommandNames) :
          LET bound == Cardinality({r \in Bindings(st) : Texts[TextAt(st, r)] = c})
              rows  == Cardinality({k \in DOMAIN st.unbound : st.unbound[k] = c})
          IN  /\ st.bc[c] = bound
              /\ rows = (IF bound = 0 THEN 1 ELSE 0) + (IF c \in st.twice THEN 1 ELSE 0)

(* What a filter refers to, itself or through others.                      *)
RECURSIVE Reach(_, _)
Reach(s, names) ==
    LET more == names \cup UNION {ToSet(FilterTexts[f.filter]) : f \in {g \in ToSet(s.filters) : g.name \in names}}
    IN  IF more = names THEN names ELSE Reach(s, more)

(* A filter marked as active is applied to the library, as it is written   *)
(* now, whatever was set, deleted, toggled or refused since; and what is   *)
(* put to use names only filters that exist and never itself, directly or  *)
(* through others.                                                         *)
FiltersApplied ==
    [][/\ \A f \in ToSet(st'.filters) : f.act_stat # "ignore" => << f.name, f.filter, f.act_stat >> \in st'.lib
       /\ st'.lib # st.lib =>
             \A e \in st'.lib :
                LET below == Reach(st', ToSet(FilterTexts[e[2]]))
                IN  e[1] \notin below /\ below \subseteq {f.name : f \in ToSet(st'.filters)}]_st

(* Over a restart every binding that rc does not name is the same, and so  *)
(* are the filters; those active stay so, unless what they refer to was    *)
(* changed so that they would be refused now.                              *)
RestartKeeps ==
    [][Restart =>
          /\ \A ctx \in ToSet(Contexts), key \in ToSet(BindKeys) :
                (\A n \in DOMAIN Rc : Rc[n].args[1] # ctx \/ Rc[n].args[2] # key) =>
                   SelectSeq(st'.key_bindings[ctx], LAMBDA x : x.key = key) =
                   SelectSeq(st.key_bindings[ctx], LAMBDA x : x.key = key)
          /\ Len(st'.filters) = Len(st.filters)
          /\ \A k \in DOMAIN st.filters :
                /\ st'.filters[k].name = st.filters[k].name /\ st'.filters[k].filter = st.filters[k].filter
                /\ \/ st'.filters[k].act_stat = st.filters[k].act_stat
                   \/ ~expr_check_leaves(st, FlattenSeq([j \in DOMAIN Active(st) |-> FilterTexts[Active(st)[j].filter]]),
                                         {f.name : f \in ToSet(Active(st))})]_st
=============================================================================
