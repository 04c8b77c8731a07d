-------------------------------- MODULE Cli --------------------------------
(***************************************************************************)
(* The command line interface (lib/usr/app/cli): the line editor on its gap *)
(* buffer and the keys of the terminal, the history and the execution of a *)
(* line, the tree of directories and commands with its node pool and its   *)
(* search path, the files of that tree, the substitution of environment    *)
(* variables, the command maps and the map of the processor's cores.  One  *)
(* mode per part.  A line is a sequence of characters; what is printed is  *)
(* left out, and so is realloc() moving the node pool (CLI_NODES_UNLIMITED).*)
(* `st` is "broken" once the code has used memory it had given back, or is *)
(* about to follow a null pointer: what the program does then is undefined, *)
(* and only how it came to that is claimed.                                *)
(***************************************************************************)
EXTENDS Integers, Sequences, SequencesExt, FiniteSets, TLC

CONSTANTS
    Chars,       \* the characters that are typed in mode "edit"
    Typed,       \* the lines that are typed in mode "history"
    MaxText,     \* bound: characters on the line in mode "edit"
    GapSize,     \* GB_DEFAULT_GAP_SIZE
    NHist,       \* entries of the history
    MaxRuns,     \* bound: lines executed
    Command,     \* the name of the command of mode "history"
    Alias,       \* the name of its alias
    AliasStr,    \* what the alias stands for
    NNodes,      \* nodes of the pool
    Names,       \* names of the tree
    MaxBins,     \* CLI_MAX_BINS
    Trees,       \* the trees an application adds
    MaxEdits,    \* bound: changes of the tree
    FileData,    \* the content of the file
    SubstLines,  \* the lines of mode "subst"
    Env,         \* the environment of mode "subst": variable -> value
    KeySeqs,     \* the byte sequences of the keys
    VtBuf,       \* VT100_BUF_SIZE
    MapCases,    \* the maps and argument vectors of mode "map"
    Cpus,        \* the processors of mode "cmap": sequences of [sid, cid]
    CModes       \* the modes

VARIABLES cmode, cl

cliVars == <<cmode, cl>>

Blank == " "
Junk == "?"
Rep(c, n) == [i \in 1 .. n |-> c]

-----------------------------------------------------------------------------
(* The gap buffer.  Offsets count from buf; the buffer ends at Len(b), and  *)
(* the bytes of the gap are never read.                                    *)

Ebuf(g) == Len(g.b)
GapLen(g) == g.egap - g.gap

memmove(b, dst, src, cnt) ==
    [i \in DOMAIN b |-> IF i - 1 \in dst .. dst + cnt - 1 THEN b[i - dst + src] ELSE b[i]]

gb_reset_buf(g) ==
    [b |-> Rep(Blank, Len(g.b)), point |-> 0, gap |-> 0, egap |-> Len(g.b)]

gb_create == gb_reset_buf([b |-> Rep(Junk, GapSize)])

gb_copy_to_buf(g) == SubSeq(g.b, 1, g.gap) \o SubSeq(g.b, g.egap + 1, Ebuf(g))

gb_set_point(g, idx) ==
    IF idx = -1 THEN [g EXCEPT !.point = Ebuf(g)]
    ELSE [g EXCEPT !.point = IF idx > g.gap THEN idx + GapLen(g) ELSE idx]

gb_eof(g) == IF g.point = g.gap THEN g.egap = Ebuf(g) ELSE g.point = Ebuf(g)

MoveKeepsPoint(g) ==
    IF g.point = g.gap THEN g
    ELSE IF g.point = g.egap THEN [g EXCEPT !.point = g.gap]
    ELSE IF g.point < g.gap
    THEN [g EXCEPT !.b = memmove(@, g.egap - (g.gap - g.point), g.point, g.gap - g.point),
                   !.egap = @ - (g.gap - g.point), !.gap = g.point]
    ELSE [g EXCEPT !.b = memmove(@, g.gap, g.egap, g.point - g.egap),
                   !.gap = @ + (g.point - g.egap), !.egap = g.point]

gb_move_gap_to_point(g) ==
    CASE g.point = g.gap -> g
      [] g.point = g.egap -> [g EXCEPT !.point = g.gap]
      [] g.point < g.gap ->
           LET cnt == g.gap - g.point IN
           [g EXCEPT !.b = memmove(@, g.egap - cnt, g.point, cnt), !.egap = @ - cnt, !.gap = g.point]
      [] g.point > g.egap ->
           LET cnt == g.point - g.egap IN
           [g EXCEPT !.b = memmove(@, g.gap, g.egap, cnt), !.gap = @ + cnt, !.egap = g.point, !.point = g.gap + cnt]
      [] OTHER ->
           LET cnt == g.point - g.gap IN
           [g EXCEPT !.b = memmove(@, g.gap, g.egap, cnt), !.egap = @ + cnt, !.gap = @ + cnt, !.point = g.gap + cnt]

gb_expand_gap(g, size) ==
    IF size <= GapLen(g) THEN g
    ELSE LET n == size + GapSize IN
         [g EXCEPT !.b = memmove(@ \o Rep(Junk, n), g.egap + n, g.egap, Ebuf(g) - g.egap), !.egap = @ + n]

gb_get(g) == IF g.point = g.gap THEN [g EXCEPT !.point = g.egap] ELSE g

\* The byte at the point: what lies behind the buffer may be anything.
ByteAt(g) == IF g.point = Ebuf(g) THEN Chars ELSE {g.b[g.point + 1]}

gb_get_prev(g) ==
    LET h == IF g.point = g.egap THEN [g EXCEPT !.point = g.gap] ELSE g IN
    [g |-> h, c |-> CASE h.point > 0 -> h.b[h.point]
                      [] h.point = 0 /\ h.gap = 0 -> "nul"
                      [] OTHER -> h.b[1]]

gb_putc(gb, c) ==
    LET g == gb_move_gap_to_point(gb)
        h == IF g.point = Ebuf(g) THEN [g EXCEPT !.b = Append(@, Junk)] ELSE g
    IN  [h EXCEPT !.b[h.gap + 1] = c, !.gap = @ + 1, !.point = @ + 1]

gb_insert(gb, c) ==
    LET g == gb_move_gap_to_point(gb) IN
    gb_putc(IF g.gap = g.egap THEN gb_expand_gap(g, 1) ELSE g, c)

gb_del(gb, cnt) == LET g == gb_move_gap_to_point(gb) IN [g EXCEPT !.egap = @ + cnt]

gb_str_insert(gb, str) ==
    IF str = <<>> THEN gb
    ELSE FoldLeft(gb_putc, gb_expand_gap(gb_move_gap_to_point(gb), Len(str)), str)

gb_right_data_size(g) == IF gb_eof(g) THEN 0 ELSE Ebuf(g) - g.egap

gb_move_right(gb) ==
    LET g == gb_get(gb) IN [g EXCEPT !.point = IF @ + 1 > Ebuf(g) THEN Ebuf(g) ELSE @ + 1]

gb_move_left(gb) ==
    LET p == IF gb.point = gb.egap THEN gb.gap ELSE gb.point IN
    [gb EXCEPT !.point = IF p = 0 THEN 0 ELSE p - 1]

\* The buffer as its next operation sees it: the bytes of the gap forgotten.
Tidy(g) == [g EXCEPT !.b = [i \in DOMAIN g.b |-> IF i - 1 \in g.gap .. g.egap - 1 THEN Junk ELSE g.b[i]]]

-----------------------------------------------------------------------------
(* The keys that edit the line.  text and cur are what the user has in     *)
(* mind: the line, and the characters left of the cursor.                  *)

key_left_arr(g) == IF g.point = 0 THEN g ELSE gb_move_left(g)

key_right_arr(g) == IF gb_eof(g) THEN g ELSE gb_move_right(g)

\* With the gap at the start of the buffer the point may be behind it: then
\* the cursor is at the start of the line, the point is not, and the byte that
\* is deleted is the one right of the cursor.  key_suppr() is the same.
key_backspace(g) == IF g.point = 0 THEN g ELSE gb_del(gb_move_left(g), 1)

RECURSIVE key_word_left(_)
key_word_left(gb) ==
    LET r == gb_get_prev(key_left_arr(gb)) IN
    IF r.c = Blank \/ r.g.point = 0 THEN r.g ELSE key_word_left(r.g)

\* The buffers the cursor's walk to the right may end with.
RECURSIVE key_word_right(_)
key_word_right(gb) ==
    IF gb.point = Ebuf(gb) THEN {gb}
    ELSE LET g == gb_get(key_right_arr(gb))
             c == ByteAt(g)
         IN  (IF Blank \in c THEN {g} ELSE {})
             \cup (IF c # {Blank} THEN key_word_right(g) ELSE {})

\* Kill to the end of the line: strndup() is asked for a byte too many, and
\* the kill buffer is freed even when there is nothing to replace it.
key_ctrl_k(e) ==
    LET g == gb_move_gap_to_point(e.g)
        right == gb_right_data_size(g)
        killed == SubSeq(g.b, g.egap + 1, Ebuf(g))
    IN  IF e.kst = "freed" THEN {[e EXCEPT !.st = "broken"]}
        ELSE {[e EXCEPT !.g = gb_del(g, right),
                        !.kill = k,
                        !.kst = IF right > 0 THEN "set" ELSE IF @ = "set" THEN "freed" ELSE @,
                        !.text = SubSeq(@, 1, e.cur),
                        !.killed = IF right > 0 THEN killed ELSE @] :
                 k \in IF right > 0 THEN {killed, Append(killed, Junk)} ELSE {e.kill}}

key_ctrl_y(e) ==
    CASE e.kst = "freed" -> [e EXCEPT !.st = "broken"]
      [] e.kst = "null" -> e
      [] OTHER -> [e EXCEPT !.g = gb_str_insert(@, e.kill),
                            !.text = SubSeq(@, 1, e.cur) \o e.kill \o SubSeq(@, e.cur + 1, Len(@)),
                            !.cur = @ + Len(e.kill)]

Edited(g, text, cur) == [cl EXCEPT !.g = Tidy(g), !.text = text, !.cur = cur]

\* The start of the word left of the cursor, the end of the word right of it.
WordStart(text, cur) ==
    IF cur = 0 THEN 0
    ELSE CHOOSE j \in 0 .. cur - 1 : /\ j = 0 \/ text[j] = Blank
                                     /\ \A k \in j + 1 .. cur - 1 : text[k] # Blank
WordEnd(text, cur) ==
    IF cur = Len(text) THEN cur
    ELSE CHOOSE j \in cur + 1 .. Len(text) : /\ j = Len(text) \/ text[j + 1] = Blank
                                             /\ \A k \in cur + 1 .. j - 1 : text[k + 1] # Blank

EditInit == [g |-> gb_create, kill |-> <<>>, kst |-> "null", killed |-> <<>>, text |-> <<>>, cur |-> 0, st |-> "ok"]

TypeChar == \E c \in Chars :
    /\ Len(cl.text) < MaxText
    /\ cl' = Edited(gb_insert(cl.g, c), InsertAt(cl.text, cl.cur + 1, c), cl.cur + 1)

MoveKeys ==
    \/ cl' = Edited(key_left_arr(cl.g), cl.text, IF cl.cur = 0 THEN 0 ELSE cl.cur - 1)
    \/ cl' = Edited(key_right_arr(cl.g), cl.text, IF cl.cur = Len(cl.text) THEN cl.cur ELSE cl.cur + 1)
    \/ cl' = Edited(gb_set_point(cl.g, 0), cl.text, 0)
    \/ cl' = Edited(gb_set_point(cl.g, -1), cl.text, Len(cl.text))
    \/ cl' = Edited(key_word_left(cl.g), cl.text, WordStart(cl.text, cl.cur))
    \/ \E g \in key_word_right(cl.g) : cl' = Edited(g, cl.text, WordEnd(cl.text, cl.cur))

\* At the start of the line: nothing, or the character to the right goes.  On an
\* empty line the end of the gap moves past the end of the buffer.
Backspace ==
    LET g == key_backspace(cl.g)
        atGap == cl.cur = 0 /\ cl.g.point # 0
    IN  IF g.egap > Ebuf(g) THEN cl' = [cl EXCEPT !.st = "past"]
        ELSE cl' = Edited(g, IF cl.cur > 0 THEN RemoveAt(cl.text, cl.cur)
                             ELSE IF atGap THEN Tail(cl.text) ELSE cl.text,
                          IF cl.cur = 0 THEN 0 ELSE cl.cur - 1)

DeleteKeys ==
    \/ Backspace
    \/ \E e \in key_ctrl_k(cl) : cl' = [e EXCEPT !.g = Tidy(@)]
    \/ /\ Len(cl.text) + Len(cl.kill) <= MaxText
       /\ cl' = LET e == key_ctrl_y(cl) IN [e EXCEPT !.g = Tidy(@)]
    \/ cl' = Edited(gb_reset_buf(cl.g), <<>>, 0)

EditNext == cl.st = "ok" /\ (TypeChar \/ MoveKeys \/ DeleteKeys)

Cursor(g) == IF g.point <= g.gap THEN g.point ELSE g.point - GapLen(g)

\* The editor shows what was typed: whatever the gap went through, the buffer
\* holds the user's line, the point is where the cursor is and never inside
\* the gap, and the kill buffer begins with what was killed last.  Two keys do
\* otherwise.  Backspace at the start of the line deletes to the right when
\* the point is behind the gap, and only on an empty line moves the gap past the
\* buffer; a kill of nothing leaves the kill buffer freed, and only after one
\* is freed memory used.
EditRight ==
    /\ cmode = "edit" /\ cl.st = "past" => cl.text = <<>> /\ cl.cur = 0
    /\ cmode = "edit" /\ cl.st = "broken" => cl.kst = "freed"
    /\ cmode = "edit" /\ cl.st = "ok" =>
        /\ gb_copy_to_buf(cl.g) = cl.text
        /\ Cursor(cl.g) = cl.cur
        /\ cl.g.point \notin cl.g.gap + 1 .. cl.g.egap - 1
        /\ 0 <= cl.g.gap /\ cl.g.gap <= cl.g.egap /\ cl.g.egap <= Ebuf(cl.g)
        /\ cl.kst = "set" => /\ IsPrefix(cl.killed, cl.kill)
                             /\ Len(cl.kill) <= Len(cl.killed) + 1

-----------------------------------------------------------------------------
(* The history, and the execution of a line.  hd_hist and free_hist hold   *)
(* the entries' numbers, line their text.                                  *)

Lead(s) == IF \A i \in DOMAIN s : s[i] = Blank THEN Len(s)
           ELSE (CHOOSE i \in DOMAIN s : s[i] # Blank /\ \A j \in 1 .. i - 1 : s[j] = Blank) - 1
strtrim(s) == LET l == SubSeq(s, Lead(s) + 1, Len(s)) IN SubSeq(l, 1, Len(l) - Lead(Reverse(l)))

\* cne_strqtok(): the words of a line.
Words(s) ==
    SelectSeq(FoldLeft(LAMBDA ws, c : IF c = Blank THEN Append(ws, <<>>)
                                      ELSE [ws EXCEPT ![Len(ws)] = Append(@, c)], <<<<>>>>, s),
              LAMBDA w : w # <<>>)

LinesOf(s) == [i \in DOMAIN s.hd_hist |-> s.line[s.hd_hist[i]]]

\* No duplicate of the last line; the oldest entry is used again when none is
\* free.  With no entry in either list the head of the list is taken for one.
cli_history_add(s, l) ==
    CASE s.hd_hist # <<>> /\ s.line[Last(s.hd_hist)] = l -> s
      [] s.free_hist # <<>> ->
           [s EXCEPT !.hd_hist = Append(@, Head(s.free_hist)), !.free_hist = Tail(@), !.line[Head(s.free_hist)] = l]
      [] s.hd_hist = <<>> -> [s EXCEPT !.st = "broken"]
      [] OTHER -> [s EXCEPT !.hd_hist = Append(Tail(@), Head(@)), !.line[Head(s.hd_hist)] = l]

\* The entry of the last line leaves the list and goes nowhere.
cli_history_del(s) ==
    IF s.hd_hist = <<>> THEN s ELSE [s EXCEPT !.hd_hist = Front(@), !.lost = @ + 1]

cli_history_reset(s) == [s EXCEPT !.curr_hist = IF s.hd_hist = <<>> THEN 0 ELSE Head(s.hd_hist)]

At(s, h) == CHOOSE i \in DOMAIN s.hd_hist : s.hd_hist[i] = h

cli_history_prev(s) ==
    CASE s.hd_hist = <<>> -> [s |-> s, l |-> {}]
      [] s.hd_hist # <<>> /\ s.curr_hist = 0 ->
           [s |-> [s EXCEPT !.curr_hist = Last(s.hd_hist)], l |-> {s.line[Last(s.hd_hist)]}]
      [] s.hd_hist # <<>> /\ s.curr_hist # 0 ->
           LET h == IF s.curr_hist = Head(s.hd_hist) THEN s.curr_hist ELSE s.hd_hist[At(s, s.curr_hist) - 1]
           IN  [s |-> [s EXCEPT !.curr_hist = h], l |-> {s.line[h]}]

\* Below the last line there is the empty one; the position does not move.
cli_history_next(s) ==
    CASE s.hd_hist = <<>> \/ s.curr_hist = 0 -> [s |-> s, l |-> {}]
      [] s.curr_hist # 0 /\ s.hd_hist # <<>> /\ s.curr_hist = Last(s.hd_hist) -> [s |-> s, l |-> {<<>>}]
      [] OTHER -> LET h == s.hd_hist[At(s, s.curr_hist) + 1] IN [s |-> [s EXCEPT !.curr_hist = h], l |-> {s.line[h]}]

key_up_arr(s, r) ==
    IF r.l = {} THEN s
    ELSE LET l == CHOOSE x \in r.l : TRUE IN
         [r.s EXCEPT !.g = gb_set_point(gb_str_insert(gb_reset_buf(@), l), Len(l))]

\* "!n": the line of the history is copied over the line that was typed, and
\* read from where the first character that is no blank stood.
HistoryLine(typed, hist) ==
    LET mem == hist \o <<"nul">> \o SubSeq(typed, Len(hist) + 2, Len(typed)) \o <<"nul">>
        rest == SubSeq(mem, Lead(typed) + 1, Len(mem))
    IN  SubSeq(rest, 1, (CHOOSE i \in DOMAIN rest : rest[i] = "nul" /\ \A j \in 1 .. i - 1 : rest[j] # "nul") - 1)

\* cli_find_cmd() for this mode's tree of one command and one alias.
NodeType(w) == CASE w = Command -> "cmd" [] w = Alias -> "alias" [] OTHER -> "none"

RECURSIVE cli_execute(_)
cli_execute(s0) ==
    LET typed == gb_copy_to_buf(s0.g)
        p == strtrim(typed)
        bang == p # <<>> /\ p[1] = "!"
        s == IF bang THEN s0 ELSE cli_history_add(s0, p)
        argv == Words(IF bang THEN HistoryLine(typed, LinesOf(s)[1]) ELSE p)
    IN  IF p = <<>> \/ (bang /\ s0.hd_hist = <<>>) THEN s0
        ELSE IF argv = <<>> \/ s.st = "broken" THEN s
        ELSE CASE NodeType(argv[1]) = "none" -> [s EXCEPT !.ran = <<"none">>]
               [] NodeType(argv[1]) = "cmd" -> cli_history_reset([s EXCEPT !.ran = argv])
               [] NodeType(argv[1]) = "alias" ->
                    LET scratch == IF Len(typed) > Len(Alias) THEN typed ELSE <<>>
                        h == gb_str_insert(gb_reset_buf(s.g), AliasStr)
                        e == cli_execute([cli_history_del(s) EXCEPT
                               !.g = IF Len(scratch) > Len(Alias)
                                     THEN gb_str_insert(h, SubSeq(scratch, Len(Alias) + 1, Len(scratch))) ELSE h])
                    IN  IF e.st = "broken" THEN e ELSE cli_history_reset(e)

\* The line the user means: what an alias stands for, or the oldest line for
\* "!" (the line number is always that of the first line here).  Blanks before
\* either are counted as characters of its name: as many characters too few are
\* taken off the line.
Meant(s, text) ==
    LET p == strtrim(text)
        from(l, n) == SubSeq(l, n + 1, Len(l))
    IN  CASE p = <<>> -> <<>>
          [] p # <<>> /\ p[1] = "!" ->
               IF s.hd_hist = <<>> THEN <<>> ELSE from(LinesOf(s)[1], Lead(text))
          [] p # <<>> /\ p[1] # "!" /\ Words(p)[1] = Alias -> strtrim(AliasStr \o from(text, Len(Alias)))
          [] OTHER -> p

Run(s, text) ==
    LET meant == Meant(s, text)
        e == cli_execute([s EXCEPT !.ran = <<>>])
        isbang == strtrim(text) # <<>> /\ strtrim(text)[1] = "!"
    IN  [e EXCEPT !.runs = @ + 1,
                  !.expect = IF meant = <<>> THEN <<>>
                             ELSE IF NodeType(Words(meant)[1]) = "cmd" THEN Words(meant) ELSE <<"none">>,
                  !.log = IF meant = <<>> \/ isbang \/ (@ # <<>> /\ Last(@) = meant) THEN @ ELSE Append(@, meant)]

HistInit == [g |-> gb_create, hd_hist |-> <<>>, free_hist |-> [i \in 1 .. NHist |-> i], line |-> [i \in 1 .. NHist |-> <<>>],
             curr_hist |-> 0, lost |-> 0, ran |-> <<>>, expect |-> <<>>, log |-> <<>>, runs |-> 0, st |-> "ok"]

Line(s) == gb_copy_to_buf(s.g)

\* The characters of a line, typed or read from a command file.
cli_input == \E l \in Typed : Line(cl) = <<>> /\ cl' = [cl EXCEPT !.g = Tidy(FoldLeft(gb_insert, @, l))]

key_return ==
    /\ cl.runs < MaxRuns
    /\ \E s \in {Run(cl, Line(cl))} : cl' = [s EXCEPT !.g = Tidy(gb_reset_buf(@)), !.curr_hist = 0]

\* The one name the last word is a prefix of is completed.  An argument is
\* completed with directories and files only, of which there are none here.
complete_args(g, argv) ==
    LET names == IF Len(argv) = 1 THEN {n \in {Command, Alias} : IsPrefix(argv[1], n)} ELSE {}
        n == CHOOSE x \in names : TRUE
    IN  IF Cardinality(names) # 1 THEN g
        ELSE gb_str_insert(gb_str_insert(g, SubSeq(n, Len(argv[1]) + 1, Len(n))), <<Blank>>)

\* Completion; after a blank the line is executed with "-?" and put back.
cli_auto_complete ==
    \E line \in {Line(cl)}, prev \in {gb_get_prev(cl.g)} :
        IF Words(line) = <<>> THEN cl' = cl
        ELSE IF prev.c # Blank THEN cl' = [cl EXCEPT !.g = Tidy(complete_args(prev.g, Words(line)))]
        ELSE /\ cl.runs < MaxRuns
             /\ \E s \in {Run([cl EXCEPT !.g = gb_str_insert(prev.g, <<"-", "?">>)], line \o <<"-", "?">>)} :
                   cl' = [s EXCEPT !.g = Tidy(gb_str_insert(gb_reset_buf(@), line))]

HistNext ==
    /\ cl.st = "ok"
    /\ \/ cli_input \/ key_return
       \/ cli_auto_complete
       \/ \E s \in {key_up_arr(cl, cli_history_prev(cl))} : cl' = [s EXCEPT !.g = Tidy(@)]
       \/ \E s \in {key_up_arr(cl, cli_history_next(cl))} : cl' = [s EXCEPT !.g = Tidy(@)]

\* The history holds the last lines that were executed, aliases replaced by
\* what they stand for, as many as it has entries left; the entry that is
\* shown is one of them; and the command that ran is the one that was meant
\* (see Meant for blanks before an alias or "!").  The list's head is taken for an
\* entry only when aliases have used all entries up.
HistoryRight ==
    /\ cmode = "history" /\ cl.st = "broken" => cl.lost = NHist
    /\ cmode = "history" /\ cl.st = "ok" =>
        LET n == Len(cl.log)
            room == NHist - cl.lost
            keep == IF n < room THEN n ELSE room
        IN  /\ LinesOf(cl) = SubSeq(cl.log, n - keep + 1, n)
            /\ Len(cl.hd_hist) + Len(cl.free_hist) + cl.lost = NHist
            /\ cl.curr_hist # 0 => cl.curr_hist \in ToSet(cl.hd_hist)
            /\ cl.ran = cl.expect

-----------------------------------------------------------------------------
(* The tree.  A node is a number of the pool, 0 is NULL; bins[1] is the    *)
(* working directory, the others are the search path.  A path is [abs,     *)
(* comps].                                                                 *)

Root == 1
Cwd(t) == t.bins[1]
IsDir(t, n) == t.typ[n] = "dir"
Exe == {"cmd", "alias"}
All == Exe \cup {"file", "dir"}

cli_add_bin(t, dir) ==
    LET spare == {i \in 2 .. MaxBins : t.bins[i] = 0} IN
    CASE dir = 0 -> [t |-> t, ok |-> FALSE]
      [] dir # 0 /\ ~ IsDir(t, dir) -> [t |-> t, ok |-> FALSE]
      [] \E i \in 2 .. MaxBins : t.bins[i] = dir -> [t |-> t, ok |-> TRUE]
      [] spare = {} -> [t |-> t, ok |-> FALSE]
      [] OTHER -> [t |-> [t EXCEPT !.bins[CHOOSE i \in spare : \A j \in spare : i <= j] = dir], ok |-> TRUE]

\* Also the first entry, the working directory, is taken for one of the path.
cli_del_bin(t, dir) ==
    IF dir \notin ToSet(t.bins) THEN t
    ELSE LET i == CHOOSE k \in DOMAIN t.bins : t.bins[k] = dir /\ \A j \in 1 .. k - 1 : t.bins[j] # dir IN
         [t EXCEPT !.bins = Append(RemoveAt(@, i), 0)]

cli_search_dir(t, dir, name, types) ==
    LET found == {i \in DOMAIN t.items[dir] : t.nm[t.items[dir][i]] = name /\ t.typ[t.items[dir][i]] \in types} IN
    CASE ~ IsDir(t, dir) -> 0
      [] name = ".." -> t.par[dir]
      [] name = "." -> dir
      [] OTHER -> IF found = {} THEN 0 ELSE t.items[dir][CHOOSE i \in found : \A j \in found : i <= j]

\* Follow the path to its last directory; a node that is none ends the walk.
Walk(t, path) ==
    FoldLeft(LAMBDA w, name :
               IF w.stop THEN w
               ELSE LET n == cli_search_dir(t, w.dir, name, All) IN
                    IF n = 0 THEN [w EXCEPT !.node = 0, !.stop = TRUE]
                    ELSE IF IsDir(t, n) THEN [w EXCEPT !.node = n, !.dir = n]
                    ELSE [w EXCEPT !.node = n, !.stop = TRUE],
             [node |-> IF path.abs /\ path.comps = <<>> THEN Root ELSE 0,
              dir |-> IF path.abs THEN Root ELSE Cwd(t), stop |-> FALSE], path.comps)

cli_find_node(t, path) == Walk(t, path).node
cli_last_dir_in_path(t, path) == Walk(t, path).dir

cli_find_cmd(t, name) ==
    LET direct == cli_find_node(t, [abs |-> FALSE, comps |-> <<name>>])
        hits == {i \in DOMAIN t.bins : t.bins[i] # 0 /\ cli_search_dir(t, t.bins[i], name, Exe) # 0}
    IN  IF direct # 0 \/ hits = {} THEN direct
        ELSE cli_search_dir(t, t.bins[CHOOSE i \in hits : \A j \in hits : i <= j], name, Exe)

\* The names a completion chooses from: those of the working directory and of
\* the path, the working directory once.
node_list_with_type(t, types) ==
    UNION {{n \in ToSet(t.items[t.bins[i]]) : t.typ[n] \in types} :
           i \in {j \in DOMAIN t.bins : t.bins[j] # 0 /\ (j > 1 => t.bins[j] # Cwd(t))}}

__add_node(t, name, parent, type) ==
    IF t.free = <<>> THEN [t |-> t, n |-> 0]
    ELSE LET n == Head(t.free) IN
         [t |-> [t EXCEPT !.free = Tail(@), !.typ[n] = type, !.nm[n] = name, !.par[n] = parent,
                          !.items[parent] = <<n>> \o @, !.below = @ \/ ~ IsDir(t, parent)], n |-> n]

\* Each part of the path is searched for by the parts before it run together,
\* from the working directory, and added to the directory reached.
cli_add_dir(t, path, dir0) ==
    LET found == cli_find_node(t, path)
        walk == FoldLeft(LAMBDA w, name :
                  IF w.stop THEN w
                  ELSE LET joined == w.joined \o name
                           f == cli_find_node(w.t, [abs |-> path.abs, comps |-> <<joined>>])
                           a == __add_node(w.t, name, w.dir, "dir")
                       IN  IF f # 0 THEN [w EXCEPT !.joined = joined, !.dir = f]
                           ELSE [w EXCEPT !.joined = joined, !.t = a.t, !.n = a.n,
                                          !.dir = IF a.n = 0 THEN @ ELSE a.n, !.stop = (a.n = 0)],
                [t |-> t, n |-> 0, joined |-> "", stop |-> FALSE,
                 dir |-> IF path.abs \/ dir0 = 0 THEN Root ELSE dir0], path.comps)
    IN  IF found # 0 THEN [t |-> t, n |-> found] ELSE [t |-> walk.t, n |-> walk.n]

\* The children first, then the node's entry of the path, then the node.
RECURSIVE cli_remove_node(_, _)
cli_remove_node(t, n) ==
    IF t.par[n] = 0 THEN t
    ELSE LET emptied == IF IsDir(t, n) THEN FoldLeft(LAMBDA u, m : cli_remove_node(u, m), t, t.items[n]) ELSE t
             s == IF IsDir(t, n) THEN cli_del_bin(emptied, n) ELSE emptied
         IN  [s EXCEPT !.items[t.par[n]] = SelectSeq(@, LAMBDA m : m # n), !.free = Append(@, n)]

\* An application's tree: entries [type, name, bin] added in order, those after
\* a directory below it; the first one that fails ends it.
cli_add_tree(t0, tree) ==
    FoldLeft(LAMBDA w, x :
               IF w.stop THEN w
               ELSE IF x.type = "dir"
               THEN LET a == cli_add_dir(w.t, x.path, w.parent)
                        b == IF x.bin /\ a.n # 0 THEN cli_add_bin(a.t, cli_find_node(a.t, x.path)) ELSE [t |-> a.t, ok |-> TRUE]
                    IN  [t |-> b.t, parent |-> a.n, stop |-> a.n = 0 \/ ~ b.ok]
               ELSE LET a == __add_node(w.t, x.name, w.parent, x.type) IN
                    [w EXCEPT !.t = a.t, !.stop = (a.n = 0)],
             [t |-> t0, parent |-> Root, stop |-> FALSE], tree).t

\* cli_create(): the pool, the root, the working directory.
TreeInit ==
    [free |-> [i \in 1 .. NNodes - 1 |-> i + 1], typ |-> [n \in 1 .. NNodes |-> "dir"], nm |-> [n \in 1 .. NNodes |-> "/"],
     par |-> [n \in 1 .. NNodes |-> 0], items |-> [n \in 1 .. NNodes |-> <<>>],
     bins |-> [i \in 1 .. MaxBins |-> IF i = 1 THEN Root ELSE 0], edits |-> 0, st |-> "ok",
     below |-> FALSE, hit |-> FALSE]

RECURSIVE Below(_, _)
Below(t, n) == {n} \cup UNION {Below(t, t.items[n][i]) : i \in DOMAIN t.items[n]}

Paths == {[abs |-> a, comps |-> c] : a \in BOOLEAN, c \in UNION {[1 .. k -> Names] : k \in 1 .. 2}}
         \cup {[abs |-> TRUE, comps |-> <<>>], [abs |-> FALSE, comps |-> <<"..">>]}
         \cup {[abs |-> TRUE, comps |-> <<a, b, c>>] : a, b, c \in Names}

Count(t) == [t EXCEPT !.edits = @ + 1]

mkdir_cmd == \E p \in Paths : cl' = Count(cli_add_dir(cl, p, Cwd(cl)).t)

\* The working directory goes with what is removed: the next of the path takes its
\* place, if there is one, and an entry of the path that is the same stays behind.
rm_cmd == \E p \in Paths :
    LET n == cli_find_node(cl, p)
        t == cli_remove_node(cl, n)
        lost == Cwd(t) = 0 \/ \E i \in DOMAIN t.bins : t.bins[i] \in ToSet(t.free)
    IN  /\ n # 0
        /\ cl' = [Count(t) EXCEPT !.st = IF lost THEN "broken" ELSE @, !.hit = Cwd(cl) \in Below(cl, n)]

\* A path that leads to a command makes it the working directory.
cd_cmd == \E p \in Paths :
    LET n == cli_find_node(cl, p) IN
    n # 0 /\ cl' = [cl EXCEPT !.bins[1] = n]

AddTree == \E tree \in Trees : cl' = Count(cli_add_tree(cl, tree))

\* A file goes to the last directory its path leads to, under its last name.
cli_file_create == \E p \in Paths :
    LET n == cli_find_node(cl, p) IN
    /\ p.comps # <<>>
    /\ n = 0 \/ (n # 0 /\ cl.typ[n] # "file")
    /\ cl' = Count(__add_node(cl, Last(p.comps), cli_last_dir_in_path(cl, p), "file").t)

AddBinPath == \E p \in Paths :
    LET n == cli_find_node(cl, p) IN n # 0 /\ cl' = Count(cli_add_bin(cl, n).t)

TreeNext ==
    /\ cl.st = "ok"
    /\ \/ cd_cmd
       \/ cl.edits < MaxEdits /\ (mkdir_cmd \/ rm_cmd \/ AddTree \/ AddBinPath \/ cli_file_create)

\* The path of a node as cli_path_string() prints it.
RECURSIVE cli_path_string(_, _)
cli_path_string(t, n) == IF n = Root THEN <<>> ELSE Append(cli_path_string(t, t.par[n]), t.nm[n])

\* A node behind a younger one of the same name or that of a parent, which
\* mkdir gives a child of the root, one that was added to a command the user had
\* changed to, or below such a node.
RECURSIVE Hidden(_, _)
Hidden(t, n) ==
    n # Root /\ (\/ Hidden(t, t.par[n]) \/ t.nm[n] = ".." \/ ~ IsDir(t, t.par[n])
                 \/ LET s == t.items[t.par[n]]
                        i == CHOOSE k \in DOMAIN s : s[k] = n
                    IN  \E k \in 1 .. i - 1 : t.nm[s[k]] = t.nm[n])

\* The pool and the tree share the nodes between them, each once (none is lost
\* unless one was added to a command the user had changed to); children and
\* parents agree; the search path has no hole and no duplicate, and is of
\* directories of the tree, to which the working directory belongs as well (it
\* may be a command); a node's path leads back to it unless it is hidden; a command
\* found is one that the working directory or the path holds.  Removing nodes
\* leaves no removed one in the path, and a working directory, unless the working
\* directory was among them.
TreeRight ==
    /\ cmode = "tree" /\ cl.st = "broken" => cl.hit
    /\ cmode = "tree" /\ cl.st = "ok" =>
        LET living == Below(cl, Root)
            path == Tail(cl.bins)
        IN  /\ IsInjective(cl.free)
            /\ ToSet(cl.free) \cap living = {}
            /\ cl.below \/ ToSet(cl.free) \cup living = 1 .. NNodes
            /\ \A n \in living : \A i \in DOMAIN cl.items[n] : cl.par[cl.items[n][i]] = n
            /\ \A i \in DOMAIN cl.bins : cl.bins[i] = 0 \/ (cl.bins[i] \in living /\ (i > 1 => IsDir(cl, cl.bins[i])))
            /\ Cwd(cl) # 0
            /\ \A i, j \in DOMAIN path : i < j /\ path[j] # 0 => path[i] # 0 /\ path[i] # path[j]
            /\ \A n \in living : ~ Hidden(cl, n) =>
                  cli_find_node(cl, [abs |-> TRUE, comps |-> cli_path_string(cl, n)]) = n
            /\ \A w \in Names : LET c == cli_find_cmd(cl, w) IN
                  /\ c # 0 => cl.nm[c] = w /\ c \in node_list_with_type(cl, All)
                  /\ c = 0 => \A n \in node_list_with_type(cl, Exe) : cl.nm[n] # w

-----------------------------------------------------------------------------
(* A file of the tree: its content, the offset and the flags.  `got` is    *)
(* what was read since the offset was last set to `from`.                  *)

FileKinds == {"handler", "copyright", "expand"}

FileInit(kind) ==
    [kind |-> kind, data |-> FileData, off |-> 0, flags |-> IF kind = "expand" THEN {"EXPAND"} ELSE {},
     from |-> 0, got |-> <<>>]

Size(f) == Len(f.data)
Placed(f, off) == [f EXCEPT !.off = off, !.from = off, !.got = <<>>]

\* An offset that left the file, past its end or below zero, is put back; a
\* file that may be expanded is cut off there instead.
cli_file_seek(f, len, whence) ==
    LET off == CASE whence = "SET" -> len
                 [] whence = "CUR" -> IF len < 0 /\ -len > Size(f) THEN 0 ELSE f.off + len
                 [] whence = "END" -> IF len < 0 /\ -len > Size(f) THEN 0 ELSE Size(f) + len
    IN  CASE whence = "SET" /\ len < 0 -> f
          [] off \in 0 .. Size(f) -> Placed(f, off)
          [] "APPEND" \notin f.flags /\ "EXPAND" \in f.flags -> [f EXCEPT !.data = SubSeq(@, 1, f.off)]
          [] OTHER -> f

cli_file_open(f, type) ==
    IF f.kind = "copyright"
    THEN LET g == [f EXCEPT !.data = FileData, !.flags = {"RDONLY"}] IN
         IF {"w", "+"} \subseteq type THEN Placed(g, Size(g)) ELSE g
    ELSE LET g == IF "w" \in type THEN [f EXCEPT !.flags = @ \cup {"WR"}] ELSE f IN
         IF "+" \in type THEN Placed([g EXCEPT !.flags = @ \cup {"APPEND"}], Size(g)) ELSE g

cli_file_close(f) == Placed(f, 0)

cli_file_read(f, len) ==
    LET n == IF len <= Size(f) - f.off THEN len ELSE Size(f) - f.off IN
    [f EXCEPT !.off = @ + n, !.got = @ \o SubSeq(f.data, f.off + 1, f.off + n)]

RECURSIVE cli_readline(_, _)
cli_readline(f, len) ==
    IF len = 0 \/ f.off = Size(f) THEN f
    ELSE LET g == cli_file_read(f, 1) IN IF Last(g.got) = "nl" THEN g ELSE cli_readline(g, len - 1)

\* cli_file_write() refuses a file that is read-only, the handler behind it
\* every file that is not.
cli_file_write(f, len) == f

FileNext ==
    \/ \E type \in SUBSET {"r", "w", "+"} : cl' = cli_file_open(cl, type)
    \/ cl' = cli_file_close(cl)
    \/ \E len \in 1 .. 2 : cl' = cli_file_read(cl, len) \/ cl' = cli_file_write(cl, len)
    \/ \E len \in 2 .. 3 : cl' = cli_readline(cl, len)
    \/ \E len \in -4 .. 4, w \in {"SET", "CUR", "END"} : cl' = cli_file_seek(cl, len, w)

\* The offset stays inside the file, what was read since it was last set is
\* the content between there and it, without a gap or a repetition, and the
\* content is never changed, at most cut off.
FileRight ==
    cmode = "file" =>
        /\ cl.off \in 0 .. Size(cl)
        /\ cl.got = SubSeq(cl.data, cl.from + 1, cl.off)
        /\ IsPrefix(cl.data, FileData)

-----------------------------------------------------------------------------
(* Substitution of ${var} and $(var).                                      *)

cli_env_get(var) == IF var \in DOMAIN Env THEN Env[var] ELSE <<"oops">>

RECURSIVE cli_env_substitution(_)
cli_env_substitution(l) ==
    IF l = <<>> THEN <<>>
    ELSE LET close == IF Len(l) > 1 /\ l[2] = "{" THEN "}" ELSE ")"
             ends == {i \in DOMAIN l : l[i] = close}
             s == CHOOSE i \in ends : \A j \in ends : i <= j
         IN  IF l[1] = "$" /\ Len(l) > 1 /\ l[2] \in {"{", "("} /\ ends # {}
             THEN cli_env_get(SubSeq(l, 3, s - 1)) \o cli_env_substitution(SubSeq(l, s + 1, Len(l)))
             ELSE <<l[1]>> \o cli_env_substitution(Tail(l))

Substitute == cl.out = "" /\ cl' = [cl EXCEPT !.out = cli_env_substitution(cl.in)]

Opens(l, i) == i < Len(l) /\ l[i] = "$" /\ l[i + 1] \in {"{", "("}
               /\ \E k \in i + 2 .. Len(l) : l[k] = IF l[i + 1] = "{" THEN "}" ELSE ")"

\* Substitution leaves a line alone exactly when it names no variable, and
\* what it makes (of values that name none) names none.
SubstRight ==
    cmode = "subst" /\ cl.out # "" =>
        /\ (\A i \in DOMAIN cl.in : ~ Opens(cl.in, i)) <=> cl.out = cl.in
        /\ \A i \in DOMAIN cl.out : ~ Opens(cl.out, i)

-----------------------------------------------------------------------------
(* The environment: a list of variables.  Setting one that exists frees its*)
(* value and gives the new one for its name: the variable is lost.         *)

find_env(env, var) == {i \in DOMAIN env : env[i].var = var}

Without(want, var) == [v \in DOMAIN want \ {var} |-> want[v]]

__env_set(s, var, val) ==
    LET f == find_env(s.env, var) IN
    IF f # {} THEN [s EXCEPT !.env[CHOOSE i \in f : TRUE] = [var |-> val, val |-> <<"freed">>],
                             !.want = Without(@, var)]
    ELSE [s EXCEPT !.env = Append(@, [var |-> var, val |-> val]), !.want = @ @@ (var :> val)]

cli_env_del(s, var) ==
    LET f == find_env(s.env, var) IN
    IF f = {} THEN s
    ELSE [s EXCEPT !.env = RemoveAt(@, CHOOSE i \in f : TRUE), !.want = Without(@, var)]

EnvNext ==
    \E var \in DOMAIN Env :
        \/ Len(cl.env) < MaxEdits /\ \E v \in DOMAIN Env : cl' = __env_set(cl, var, Env[v])
        \/ cl' = cli_env_del(cl, var)

\* A variable has the value it was set to until it is deleted, or set again.
EnvRight ==
    cmode = "env" =>
        /\ \A v \in DOMAIN Env : Cardinality(find_env(cl.env, v)) = IF v \in DOMAIN cl.want THEN 1 ELSE 0
        /\ \A i \in DOMAIN cl.env : cl.env[i].var \in DOMAIN Env => cl.env[i].val = cl.want[cl.env[i].var]

-----------------------------------------------------------------------------
(* The keys of the terminal: a byte at a time.  "esc" and "[" are bytes of *)
(* their own, "ctl" is one below '0', "dig" one from '0' on, "let" one from*)
(* '@' on.  ret is the key, "more" while it is not complete, "done" for    *)
(* bytes that are none.                                                    *)

vt100_find_cmd(buf) == IF buf \in KeySeqs THEN "key" ELSE "done"

vt100_parse_input(v, c) ==
    LET fresh == v.buf = <<>> \/ Len(v.buf) >= VtBuf
        state == IF fresh THEN "INIT" ELSE v.state
        buf == IF fresh THEN <<c>> ELSE Append(v.buf, c)
        found == [state |-> state, buf |-> <<>>, ret |-> vt100_find_cmd(buf), last |-> buf]
        more(st) == [state |-> st, buf |-> buf, ret |-> "more", last |-> <<>>]
    IN  CASE state = "INIT" -> IF c = "esc" THEN more("ESCAPE") ELSE found
          [] state = "ESCAPE" -> IF c = "[" THEN more("CSI") ELSE IF c \in {"dig", "let"} THEN found ELSE more(state)
          [] state = "CSI" -> IF c \in {"let", "["} THEN found ELSE more(state)

KeysNext == \E c \in {"esc", "[", "ctl", "dig", "let"} : cl' = vt100_parse_input(cl, c)

\* The parser falls into step again: it never holds more bytes than it has
\* room for, holds none after a key, and while it holds some they begin with
\* an escape, so that a plain character is only swallowed inside a sequence.
KeysRight ==
    cmode = "keys" =>
        /\ Len(cl.buf) <= VtBuf
        /\ cl.buf # <<>> => cl.buf[1] = "esc" /\ cl.ret = "more"
        /\ cl.ret # "more" => \/ Len(cl.last) = 1 \/ cl.last[1] = "esc"
        /\ cl.ret = "key" => cl.last \in KeySeqs

-----------------------------------------------------------------------------
(* Command maps.  A word of a format is [c, w]: a constant w when c is "=",*)
(* else the conversion c.  An argument is a sequence of characters.        *)

Digits == {"0", "1"}
Hex == Digits \cup {"a"}

\* One character of the right kind is enough.
is_map_valid(c, w, arg) ==
    CASE c \in {"b", "d", "D", "n", "4", "6"} -> \E i \in DOMAIN arg : arg[i] \in Digits
      [] c \in {"h", "H", "m"} -> \E i \in DOMAIN arg : arg[i] \in Hex
      [] c \in {"P", "C"} -> \E i \in DOMAIN arg : arg[i] \in Digits \cup {"a"}
      [] c = "s" -> arg # <<>>
      [] c = "|" -> arg \in w
      [] c \in {"k", "l", "%"} -> TRUE
      [] OTHER -> FALSE

Matches(fmt, argv) ==
    /\ Len(fmt) = Len(argv)
    /\ \A j \in DOMAIN argv : IF fmt[j].c = "=" THEN fmt[j].w = argv[j] ELSE is_map_valid(fmt[j].c, fmt[j].w, argv[j])

cli_mapping(maps, argv) ==
    FoldLeft(LAMBDA r, i : IF r # 0 THEN r
                           ELSE IF Last(argv) \in {<<"-", "?">>, <<"?">>} THEN -1
                           ELSE IF Matches(maps[i], argv) THEN i ELSE 0,
             0, [i \in DOMAIN maps |-> i])

Mapping == cl.out = 9 /\ cl' = [cl EXCEPT !.out = cli_mapping(cl.maps, cl.argv)]

\* A line of constants and of arguments all of the right kind is never taken
\* for an entry that comes later than the first that fits it.
MapRight ==
    cmode = "map" /\ cl.out # 9 =>
        /\ cl.out > 0 => \A i \in 1 .. cl.out - 1 : ~ Matches(cl.maps[i], cl.argv)
        /\ cl.out = 0 => \A i \in DOMAIN cl.maps : ~ Matches(cl.maps[i], cl.argv)

-----------------------------------------------------------------------------
(* The core map: /proc/cpuinfo read into a list, the newest core first, then*)
(* socket and core numbers made consecutive.                               *)

RECURSIVE get_next_thread_id(_, _, _)
get_next_thread_id(lc, sid, cid) ==
    IF lc = <<>> THEN 0
    ELSE IF Head(lc).sid = sid /\ Head(lc).cid = cid THEN Head(lc).tid + 1
    ELSE get_next_thread_id(Tail(lc), sid, cid)

ReadCpus(cpus) ==
    FoldLeft(LAMBDA lc, i : <<[lid |-> i - 1, sid |-> cpus[i].sid, cid |-> cpus[i].cid,
                               tid |-> get_next_thread_id(lc, cpus[i].sid, cpus[i].cid)]>> \o lc,
             <<>>, [i \in DOMAIN cpus |-> i])

RECURSIVE closest_gte(_, _, _, _, _)
closest_gte(lc, i, sel, v, get) ==
    IF i > Len(lc) THEN sel
    ELSE IF lc[i][get] >= v /\ (sel = 0 \/ (sel # 0 /\ lc[sel][get] - v > lc[i][get] - v))
    THEN closest_gte(lc, i + 1, i, v, get)
    ELSE closest_gte(lc, i + 1, sel, v, get)

remap(lc, first, to, get) ==
    [i \in DOMAIN lc |-> IF i >= first /\ lc[i][get] = lc[first][get] THEN [lc[i] EXCEPT ![get] = to] ELSE lc[i]]

RECURSIVE zero_base(_, _, _)
zero_base(lc, id, get) ==
    LET first == closest_gte(lc, 1, 0, id, get) IN
    IF first = 0 THEN lc ELSE zero_base(remap(lc, first, id, get), id + 1, get)

cmap_create(cpus) == zero_base(zero_base(ReadCpus(cpus), 0, "sid"), 0, "cid")

CreateMap == cl.out = <<>> /\ cl' = [cl EXCEPT !.out = cmap_create(cl.cpus)]

sct(lc, s, c, t) ==
    LET f == {i \in DOMAIN lc : lc[i].sid = s /\ lc[i].cid = c /\ lc[i].tid = t} IN
    IF f = {} THEN 0 ELSE lc[CHOOSE i \in f : \A j \in f : i <= j].lid

Rank(v, vs) == Cardinality({x \in vs : x < v})

\* Every core keeps its place: its socket and core numbers are the ranks of
\* the ones the kernel gave, its thread number counts the earlier cores of the
\* same socket and core, and the table that is shown finds it by the three.
CmapRight ==
    cmode = "cmap" /\ cl.out # <<>> =>
        LET raw == cl.cpus
            sids == {raw[i].sid : i \in DOMAIN raw}
            cids == {raw[i].cid : i \in DOMAIN raw}
        IN  \A i \in DOMAIN raw :
              sct(cl.out, Rank(raw[i].sid, sids), Rank(raw[i].cid, cids),
                  Cardinality({j \in 1 .. i - 1 : raw[j] = raw[i]})) = i - 1

-----------------------------------------------------------------------------
Init ==
    /\ cmode \in CModes
    /\ CASE cmode = "edit" -> cl = EditInit
         [] cmode = "history" -> cl = HistInit
         [] cmode = "tree" -> cl = TreeInit
         [] cmode = "file" -> \E k \in FileKinds : cl = FileInit(k)
         [] cmode = "subst" -> \E l \in SubstLines : cl = [in |-> l, out |-> ""]
         [] cmode = "env" -> cl = [env |-> <<>>, want |-> <<>>]
         [] cmode = "keys" -> cl = [state |-> "INIT", buf |-> <<>>, ret |-> "done", last |-> <<"ctl">>]
         [] cmode = "map" -> \E c \in MapCases : cl = [maps |-> c.maps, argv |-> c.argv, out |-> 9]
         [] cmode = "cmap" -> \E c \in Cpus : cl = [cpus |-> c, out |-> <<>>]

Next ==
    /\ UNCHANGED cmode
    /\ \/ cmode = "edit" /\ EditNext
       \/ cmode = "history" /\ HistNext
       \/ cmode = "tree" /\ TreeNext
       \/ cmode = "file" /\ FileNext
       \/ cmode = "subst" /\ Substitute
       \/ cmode = "env" /\ EnvNext
       \/ cmode = "keys" /\ KeysNext
       \/ cmode = "map" /\ Mapping
       \/ cmode = "cmap" /\ CreateMap

Spec == Init /\ [][Next]_cliVars

\* The parts of the command line each keep their promise.
CliRight == EditRight /\ HistoryRight /\ TreeRight /\ FileRight /\ SubstRight /\ EnvRight /\ KeysRight /\ MapRight /\ CmapRight

=============================================================================
