---------------------------- MODULE CommandLine ----------------------------
(***************************************************************************)
(* The line at the bottom of the screen: cmdline.c edits it, history.c and *)
(* tabexp.c fill it in, command_mode.c and search_mode.c give the keys     *)
(* their meaning, and a remote search shares the search history.  A text   *)
(* is a sequence of characters, which have one or more bytes.              *)
(***************************************************************************)
EXTENDS Integers, Sequences, SequencesExt, FiniteSets, FiniteSetsExt

CONSTANTS
    CharSize,     \* the bytes of each character
    Commands,     \* the commands, sorted: names and what expands their argument
    Names,        \* per kind of argument the names known, sorted
    History,      \* what was in the history files
    max_lines,    \* lines a history keeps
    LineSize,     \* first size of cmdline.line
    MaxLine,      \* bound: characters typed in a line
    MaxKeys,      \* bound: keys pressed
    MaxAdds,      \* bound: lines added to the histories
    MaxRemote     \* bound: searches of remote clients

ASSUME CommandLineAssumption ==
    /\ {LineSize, max_lines} \subseteq Nat \ {0} /\ {MaxLine, MaxKeys, MaxAdds, MaxRemote} \subseteq Nat
    /\ \A ch \in DOMAIN CharSize : CharSize[ch] \in Nat \ {0}

VARIABLES cl, keys

Bytes(s) == FoldLeft(LAMBDA n, ch : n + CharSize[ch], 0, s)

-----------------------------------------------------------------------------
(* cmdline.c works on bytes; cpos and clen only follow.                    *)

Before(c) == CHOOSE k \in 0 .. Len(c.line) : Bytes(SubSeq(c.line, 1, k)) = c.bpos
Head_(c) == SubSeq(c.line, 1, Before(c))
Tail_(c) == SubSeq(c.line, Before(c) + 1, Len(c.line))

(* The terminating zero is not counted.                                    *)
cmdline_insert_ch(c, ch) ==
    LET size == CharSize[ch]
    IN  [c EXCEPT !.line = Head_(c) \o << ch >> \o Tail_(c), !.size = IF c.blen + size > @ THEN 2 * @ ELSE @,
                  !.bpos = @ + size, !.cpos = @ + 1, !.blen = @ + size, !.clen = @ + 1]

BackspaceOneByte(c) ==
    IF c.bpos = 0 THEN c
    ELSE [c EXCEPT !.line = Front(Head_(c)) \o Tail_(c),
                   !.bpos = @ - 1, !.cpos = @ - 1, !.blen = @ - 1, !.clen = @ - 1]

cmdline_backspace(c) ==
    IF c.bpos = 0 THEN c
    ELSE LET size == CharSize[Last(Head_(c))]
         IN  [c EXCEPT !.line = Front(Head_(c)) \o Tail_(c),
                       !.bpos = @ - size, !.cpos = @ - 1, !.blen = @ - size, !.clen = @ - 1]

cmdline_backspace_to_bol(c) == FoldLeft(LAMBDA d, ch : cmdline_backspace(d), c, Head_(c))

cmdline_delete_ch(c) ==
    IF c.bpos = c.blen THEN c
    ELSE [c EXCEPT !.line = Head_(c) \o Tail(Tail_(c)),
                   !.blen = @ - CharSize[Head(Tail_(c))], !.clen = @ - 1]

RECURSIVE Grown(_, _)
Grown(size, len) == IF len >= size THEN Grown(2 * size, len) ELSE size

cmdline_set_text(c, text) ==
    [c EXCEPT !.line = text, !.size = Grown(@, Bytes(text)), !.cpos = Len(text), !.bpos = Bytes(text),
              !.clen = Len(text), !.blen = Bytes(text)]

cmdline_clear(c) == [c EXCEPT !.line = << >>, !.cpos = 0, !.bpos = 0, !.clen = 0, !.blen = 0]

cmdline_clear_end(c) ==
    [c EXCEPT !.line = Head_(c), !.clen = Len(Head_(c)), !.blen = Bytes(Head_(c))]

cmdline_move_left(c) ==
    IF c.bpos > 0 THEN [c EXCEPT !.cpos = @ - 1, !.bpos = @ - CharSize[Last(Head_(c))]] ELSE c

cmdline_move_right(c) ==
    IF c.bpos < c.blen THEN [c EXCEPT !.cpos = @ + 1, !.bpos = @ + CharSize[Head(Tail_(c))]] ELSE c

cmdline_move_home(c) == [c EXCEPT !.cpos = 0, !.bpos = 0]
cmdline_move_end(c) == [c EXCEPT !.cpos = c.clen, !.bpos = c.blen]

-----------------------------------------------------------------------------
(* history.c.  lines: newest first; search_pos: 0 for NULL, or Dangling    *)
(* when the entry it points to has been freed.                             *)

Dangling == -1

AddKeepsIdentical(h, text) ==
    LET all == << text >> \o h.lines
    IN  [h EXCEPT !.lines = IF Len(all) > max_lines THEN Front(all) ELSE all,
                  !.search_pos = IF @ > 0 THEN @ + 1 ELSE @]

history_add_line(h, text) ==
    LET others == SelectSeq(h.lines, LAMBDA l : l # text)
        all    == << text >> \o others
        lines  == IF Len(all) > max_lines THEN Front(all) ELSE all
        kept   == {k \in 2 .. Len(lines) : h.search_pos > 0 /\ lines[k] = h.lines[h.search_pos]}
    IN  [lines |-> lines,
         search_pos |-> IF h.search_pos <= 0 THEN h.search_pos ELSE IF kept = {} THEN Dangling ELSE Max(kept)]

history_search_forward(h, text) ==
    LET found == {k \in h.search_pos + 1 .. Len(h.lines) : IsPrefix(text, h.lines[k])}
    IN  IF found = {} THEN h ELSE [h EXCEPT !.search_pos = Min(found)]

history_search_backward(h, text) ==
    LET found == {k \in 1 .. h.search_pos - 1 : IsPrefix(text, h.lines[k])}
    IN  [h EXCEPT !.search_pos = IF found = {} THEN 0 ELSE Max(found)]

reset_history_search(c, m) == [c EXCEPT !.history[m].search_pos = 0, !.history_search_text[m] = << >>]

-----------------------------------------------------------------------------
(* tabexp.c, and what fills it in: no tails, or a head and tails.          *)

NoMatch == [head |-> << >>, tails |-> << >>, idx |-> 1]

Rest(str, names) ==
    LET found == SelectSeq(names, LAMBDA n : IsPrefix(str, n))
    IN  [k \in DOMAIN found |-> SubSeq(found[k], Len(str) + 1, Len(found[k]))]

(* The names that begin with str; an only one is finished with only.       *)
Matches(head, str, names, only) ==
    LET tails == Rest(str, names)
    IN  IF tails = << >> THEN NoMatch
        ELSE [head |-> head, idx |-> 1, tails |-> IF Len(tails) = 1 THEN << tails[1] \o only >> ELSE tails]

FirstWord(s) == SubSeq(s, 1, Min({k \in DOMAIN s : s[k] = " "}) - 1)
HasSpace(s) == \E k \in DOMAIN s : s[k] = " "
StripLeft(s) == SubSeq(s, Min({k \in 1 .. Len(s) + 1 : k > Len(s) \/ s[k] # " "}), Len(s))
Argument(s) == StripLeft(SubSeq(s, Len(FirstWord(s)) + 1, Len(s)))
LastWord(s) == SubSeq(s, Max({0} \cup {k \in DOMAIN s : s[k] = " "}) + 1, Len(s))

(* The one of names that is meant by str: exact, or no other begins so.    *)
Meant(str, names) ==
    LET found == {n \in ToSet(names) : IsPrefix(str, n)}
    IN  IF str \in found THEN {str} ELSE IF Cardinality(found) = 1 THEN found ELSE {}

expand_commands(s) == Matches(s, s, [k \in DOMAIN Commands |-> Commands[k].name], << " " >>)

expand_options(s) ==
    IF Len(s) > 1 /\ Last(s) = "="
    THEN IF Front(s) \in ToSet(Names["option"]) THEN [head |-> s, tails |-> << << "b" >> >>, idx |-> 1] ELSE NoMatch
    ELSE Matches(s, s, Names["option"], << "=" >>)

expand_toptions(s) == Matches(s, s, Names["toggle"], << >>)
expand_factivate(s) == Matches(s, LastWord(s), Names["filter"], << >>)
expand_colorscheme(s) == Matches(s, s, Names["theme"], << >>)
expand_key_context(s) == Matches(s, s, Names["context"], << " " >>)

expand_unbind_args(s) ==
    IF ~HasSpace(s) THEN expand_key_context(s)
    ELSE LET key == Argument(s)
             context == Meant(FirstWord(s), Names["context"])
         IN  IF context = {} THEN NoMatch
             ELSE Matches((CHOOSE n \in context : TRUE) \o << " " >> \o key, key, Names["key"], << >>)

(* tabexp_load_dir in the current directory: whole names.                  *)
expand_files(s) ==
    LET found == SelectSeq(Names["file"], LAMBDA n : IsPrefix(s, n))
    IN  IF found = << >> THEN NoMatch ELSE [head |-> << >>, tails |-> found, idx |-> 1]

Expand(kind, s) ==
    CASE kind = "set" -> expand_options(s)
      [] kind = "toggle" -> expand_toptions(s)
      [] kind = "factivate" -> expand_factivate(s)
      [] kind = "colorscheme" -> expand_colorscheme(s)
      [] kind = "unbind" -> expand_unbind_args(s)
      [] kind = "cd" -> expand_files(s)
      [] OTHER -> NoMatch

get_command(word) ==
    {c \in ToSet(Commands) : c.name \in Meant(word, [k \in DOMAIN Commands |-> Commands[k].name])}

expand_command_line(s) ==
    IF ~HasSpace(s) THEN expand_commands(s)
    ELSE LET found == {[c |-> c, t |-> Expand(c.expand, Argument(s))] : c \in get_command(FirstWord(s))}
         IN  IF \A f \in found : f.t.tails = << >> THEN NoMatch
             ELSE LET f == CHOOSE g \in found : TRUE
                  IN  [f.t EXCEPT !.head = f.c.name \o << " " >> \o @]

(* The next expansion, the matches read when there are none yet.           *)
tabexp_expand(t, src) == IF t.tails # << >> THEN t ELSE expand_command_line(src)
Expanded(t) == t.head \o t.tails[t.idx]
Advanced(t) == IF Len(t.tails) = 1 THEN NoMatch ELSE [t EXCEPT !.idx = (@ % Len(t.tails)) + 1]

tab_expand(c) ==
    LET t == tabexp_expand(c.tabexp, StripLeft(Head_(c)))
    IN  IF t.tails = << >> THEN c
        ELSE LET text == Expanded(t)
                 line == text \o Tail_(c)
             IN  [c EXCEPT !.tabexp = Advanced(t), !.line = line, !.blen = Bytes(line), !.clen = Len(line),
                           !.bpos = Bytes(text), !.cpos = Len(text), !.size = Grown(@, Bytes(line))]

reset_tab_expansion(c) == [c EXCEPT !.tabexp = NoMatch]

-----------------------------------------------------------------------------
(* What the keys do, in command_mode.c and search_mode.c alike.            *)

Moves == {"left", "right", "home", "end"}
Deletes == {"delete", "backspace", "kill_end", "kill_bol"}

backspace(c) == IF c.clen > 0 THEN cmdline_backspace(c) ELSE [c EXCEPT !.input_mode = "normal"]

Edit(c, key) ==
    CASE key = "left" -> cmdline_move_left(c)
      [] key = "right" -> cmdline_move_right(c)
      [] key = "home" -> cmdline_move_home(c)
      [] key = "end" -> cmdline_move_end(c)
      [] key = "delete" -> cmdline_delete_ch(c)
      [] key = "backspace" -> backspace(c)
      [] key = "kill_end" -> cmdline_clear_end(c)
      [] key = "kill_bol" -> cmdline_backspace_to_bol(c)

MayAdd == cl.adds < MaxAdds
AddLine(c, m, text) ==
    [c EXCEPT !.history[m] = history_add_line(@, text), !.adds = @ + 1]

In(m) == cl.input_mode = m
Normal(c) == [c EXCEPT !.input_mode = "normal"]

enter_command_mode == In("normal") /\ cl' = [cl EXCEPT !.input_mode = "command"]
enter_search_mode == In("normal") /\ cl' = [cl EXCEPT !.input_mode = "search", !.search_direction = "/"]
enter_search_backward_mode == In("normal") /\ cl' = [cl EXCEPT !.input_mode = "search", !.search_direction = "?"]

(* win-activate on a row of the settings.                                  *)
Selected == << "a", "a" >>
help_select(c) == [cmdline_set_text(c, Selected) EXCEPT !.input_mode = "command"]
NormalSelect == In("normal") /\ cl' = help_select(cl)

(* command_mode_ch and command_mode_key.                                   *)
CommandDone(c) == reset_tab_expansion(reset_history_search(c, "command"))

CommandEdit(key) == In("command") /\ cl' = CommandDone(Edit(cl, key))
CommandType(ch) ==
    /\ In("command") /\ Len(cl.line) < MaxLine
    /\ cl' = CommandDone(cmdline_insert_ch(cl, ch))

CommandCancel ==
    /\ In("command")
    /\ IF cl.blen = 0 THEN cl' = CommandDone(Normal(cl))
       ELSE MayAdd /\ cl' = CommandDone(Normal(cmdline_clear(AddLine(cl, "command", cl.line))))

(* The command may be win-activate: the line it leaves goes to the history. *)
CommandEnter ==
    /\ In("command")
    /\ IF cl.blen = 0 THEN cl' = CommandDone(Normal(cl))
       ELSE /\ MayAdd
            /\ \E ran \in {cl, help_select(cl)} :
                  cl' = CommandDone(Normal(cmdline_clear(AddLine(ran, "command", ran.line))))

CommandTab == In("command") /\ cl' = reset_history_search(tab_expand(cl), "command")

(* The arrow keys keep the search in the history.                          *)
CommandMoveKeepsTabs(key) == In("command") /\ cl' = Edit(cl, key)

CommandMove(key) == In("command") /\ cl' = reset_tab_expansion(Edit(cl, key))

(* The text to look for is what was there at the first key up.             *)
HistoryUp(c, m, text) ==
    LET typed == IF c.history_search_text[m] = << >> THEN << text >> ELSE c.history_search_text[m]
    IN  [c EXCEPT !.history_search_text[m] = typed, !.history[m] = history_search_forward(@, typed[1])]

HistoryDown(c, m) == [c EXCEPT !.history[m] = history_search_backward(@, c.history_search_text[m][1])]

Recalled(c, m) ==
    IF c.history[m].search_pos = 0 THEN c.history_search_text[m][1] ELSE c.history[m].lines[c.history[m].search_pos]

(* What a key does with an entry that was freed is not defined.            *)
Alive(m) == cl.history[m].search_pos # Dangling

CommandUp ==
    /\ In("command") /\ Alive("command")
    /\ LET c == HistoryUp(reset_tab_expansion(cl), "command", cl.line)
       IN  cl' = IF c.history = cl.history THEN c ELSE cmdline_set_text(c, Recalled(c, "command"))

CommandDown ==
    /\ In("command") /\ Alive("command")
    /\ IF cl.history_search_text["command"] = << >> THEN cl' = reset_tab_expansion(cl)
       ELSE LET c == HistoryDown(reset_tab_expansion(cl), "command")
            IN  cl' = cmdline_set_text(c, Recalled(c, "command"))

(* search_mode_ch and search_mode_key.  A second / or ? restricts the      *)
(* search.                                                                 *)
Restricted(c) == c.line # << >> /\ c.line[1] = c.search_direction
Text(c) == IF Restricted(c) THEN Tail(c.line) ELSE c.line

update_search_line(c, text) == cmdline_set_text(c, IF Restricted(c) THEN << c.search_direction >> \o text ELSE text)

search_text(c, text) == IF text = << >> THEN c ELSE AddLine(c, "search", text)

SearchDone(c) == reset_history_search(c, "search")

SearchEdit(key) == In("search") /\ cl' = SearchDone(Edit(cl, key))
SearchType(ch) ==
    /\ In("search") /\ Len(cl.line) < MaxLine
    /\ cl' = SearchDone(cmdline_insert_ch(cl, ch))
SearchMove(key) == In("search") /\ cl' = Edit(cl, key)

SearchCancel ==
    /\ In("search")
    /\ IF Text(cl) = << >> THEN cl' = SearchDone(Normal(cl))
       ELSE MayAdd /\ cl' = SearchDone(Normal(cmdline_clear(AddLine(cl, "search", Text(cl)))))

SearchEnter ==
    /\ In("search") /\ (Text(cl) = << >> \/ MayAdd)
    /\ cl' = SearchDone(Normal(cmdline_clear(search_text(cl, Text(cl)))))

SearchUp ==
    /\ In("search") /\ Alive("search")
    /\ LET c == HistoryUp(cl, "search", Text(cl))
       IN  cl' = IF c.history = cl.history THEN c ELSE update_search_line(c, Recalled(c, "search"))

SearchDown ==
    /\ In("search") /\ Alive("search") /\ cl.history_search_text["search"] # << >>
    /\ LET c == HistoryDown(cl, "search")
       IN  cl' = update_search_line(c, Recalled(c, "search"))

(* read_commands: the same search_text, whatever the user is doing.        *)
RemoteSearch(dir, text) ==
    /\ cl.remote < MaxRemote
    /\ cl' = [search_text([cl EXCEPT !.search_direction = dir], text) EXCEPT !.remote = @ + 1, !.adds = cl.adds]

ClInit ==
    /\ keys = 0
    /\ cl = [input_mode |-> "normal", line |-> << >>, cpos |-> 0, bpos |-> 0, clen |-> 0, blen |-> 0,
          size |-> LineSize, search_direction |-> "/", tabexp |-> NoMatch,
          history |-> [m \in {"command", "search"} |-> [lines |-> History, search_pos |-> 0]],
          history_search_text |-> [m \in {"command", "search"} |-> << >>], adds |-> 0, remote |-> 0]

Key ==
    \/ enter_command_mode \/ enter_search_mode \/ enter_search_backward_mode \/ NormalSelect
    \/ \E key \in Moves \cup Deletes : CommandEdit(key) \/ SearchEdit(key)
    \/ \E key \in Moves : CommandMove(key) \/ SearchMove(key)
    \/ \E ch \in {"a", "b", " "} : CommandType(ch)
    \/ \E ch \in {"a", "b", "/"} : SearchType(ch)
    \/ CommandCancel \/ CommandEnter \/ CommandTab \/ CommandUp \/ CommandDown
    \/ SearchCancel \/ SearchEnter \/ SearchUp \/ SearchDown
    \/ \E dir \in {"/", "?"}, text \in {<< "a" >>, << "a", "b" >>} : RemoteSearch(dir, text)

ClNext == keys < MaxKeys /\ keys' = keys + 1 /\ Key

-----------------------------------------------------------------------------
(* Properties.                                                             *)

(* After any sequence of keys the positions and lengths that cmdline.c     *)
(* keeps in bytes and in characters are those of the line, and the bytes   *)
(* are within the allocation (the terminating zero may be one past it).    *)
(* Outside the two modes the line is empty, but for a / or ? that a        *)
(* cancelled search leaves.  Matches kept for the next Tab belong to the   *)
(* line as it is: before the cursor is the last expansion shown.           *)
LineConsistent ==
    /\ cl.blen = Bytes(cl.line) /\ cl.clen = Len(cl.line) /\ cl.blen <= cl.size
    /\ \E k \in 0 .. Len(cl.line) : cl.cpos = k /\ cl.bpos = Bytes(SubSeq(cl.line, 1, k))
    /\ cl.input_mode = "normal" => cl.line \in {<< >>, << "/" >>, << "?" >>}
    /\ LET t == cl.tabexp
       IN  t.tails # << >> => Head_(cl) = t.head \o t.tails[((t.idx - 2) % Len(t.tails)) + 1]

(* A history has no line twice and not more than its limit; up and down    *)
(* stay on an entry that exists, unless a remote search freed it; and they *)
(* only show lines that begin with what was typed.                         *)
HistoryFaithful ==
    \A m \in {"command", "search"} :
        LET h == cl.history[m]
            typed == cl.history_search_text[m]
        IN  /\ IsInjective(h.lines) /\ Len(h.lines) <= max_lines
            /\ h.search_pos \in 0 .. Len(h.lines) \/ (m = "search" /\ cl.remote > 0)
            /\ typed # << >> =>
                  /\ cl.input_mode = m
                  /\ IsPrefix(typed[1], cl.line) \/ (m = "search" /\ IsPrefix(typed[1], Tail(cl.line)))
=============================================================================
