----------------------------- MODULE MountTable -----------------------------
(***************************************************************************)
(* unistd::MountEntry as a line of text and back, and unistd::Fstab, a     *)
(* list of entries, as a file that setmntent(3) and its kin read and write.*)
(* A character is its code.                                                *)
(***************************************************************************)
EXTENDS Naturals, SequencesExt

CONSTANTS
    Char,        \* the characters of a device or directory
    MaxLength,   \* of their names
    MaxEntries,  \* of a list
    MaxKept,     \* a bound: the lines of a file that is written once more
    Garbage,     \* the texts an uninitialised pointer may point to, besides a crash
    None

VARIABLES
    entry,       \* the MountEntry the program works on, or None
    text,        \* what it was last converted to, or None
    was,         \* history: the entry that text was made of
    parsed,      \* history: entry was read from text
    entries,     \* Fstab::entries
    file,        \* the lines of the file, each the texts between its blanks
    saved,       \* history: the entries that were last saved
    loaded       \* history: entries was read from the file after that

conversion == <<entry, text, was, parsed>>
fstab == <<entries, file, saved, loaded>>
vars == <<conversion, fstab>>

Space == 32
Tab == 9
NewLine == 10
VerticalTab == 11
FormFeed == 12
Return == 13
Hash == 35
Backslash == 92
Zero == 48
Comma == 44
White == {Space, Tab, NewLine, VerticalTab, FormFeed, Return}   \* what trim_copy() removes

Name == UNION {[1..n -> Char] : n \in 0..MaxLength}
NoType == <<110>>
Bind == <<98>>
Proc == <<112>>
Ro == <<114>>
Defaults == <<100>>

-----------------------------------------------------------------------------
(* Text *)

Octal(c) == <<Backslash, Zero + (c \div 64), Zero + ((c \div 8) % 8), Zero + (c % 8)>>
SpecialNoBackslash == {Space, Tab, NewLine}   \* mutant of Special
Special == {Space, Tab, NewLine, Backslash}
escape(field) ==
    FlattenSeq([k \in DOMAIN field |-> IF field[k] \in Special THEN Octal(field[k]) ELSE <<field[k]>>])

\* Whatever three characters follow a backslash are read as octal digits, in
\* one byte; what follows the last one may be cut short and is dropped.
Take(state, c) ==
    LET code == (8 * state.code + 256 + c - Zero) % 256
    IN  IF state.octal = 0
        THEN IF c = Backslash THEN [state EXCEPT !.octal = 1, !.code = 0]
             ELSE [state EXCEPT !.buf = Append(@, c)]
        ELSE IF state.octal < 3 THEN [state EXCEPT !.octal = @ + 1, !.code = code]
             ELSE [state EXCEPT !.octal = 0, !.buf = Append(@, code)]
unescape(field) == FoldLeft(Take, [buf |-> <<>>, octal |-> 0, code |-> 0], field).buf

\* On blanks, of which several in a row separate once.
Cut(parts, c) ==
    IF c \notin {Space, Tab} THEN [parts EXCEPT ![Len(parts)] = Append(@, c)]
    ELSE IF Last(parts) = <<>> THEN parts ELSE Append(parts, <<>>)
Split(line) == FoldLeft(Cut, << <<>> >>, line)

Trim(line) ==
    LET black == {k \in DOMAIN line : line[k] \notin White}
        first == CHOOSE k \in black : \A m \in black : k <= m
        last == CHOOSE k \in black : \A m \in black : m <= k
    IN  IF black = {} THEN <<>> ELSE SubSeq(line, first, last)

-----------------------------------------------------------------------------
(* MountEntry *)

Fields(e) == <<e.fsname, e.dir, e.type, e.opts>>
Complete(e) == \A k \in 1..4 : Fields(e)[k] # <<>>

\* An empty field throws.
ToText(e) ==
    IF Complete(e)
    THEN FlattenSeq([k \in 1..4 |-> escape(Fields(e)[k]) \o <<Space>>])
            \o <<Zero + e.freq, Space, Zero + e.passno>>
    ELSE None

IsNumber(field) == Len(field) = 1 /\ field[1] \in Zero..Zero + 9
\* Wrong fields number, or bad_lexical_cast: an exception.
FromText(line) ==
    LET parts == Split(Trim(line))
        field == [k \in DOMAIN parts |-> unescape(parts[k])]
    IN  IF Len(parts) = 6 /\ IsNumber(parts[5]) /\ IsNumber(parts[6])
        THEN [fsname |-> field[1], dir |-> field[2], type |-> field[3], opts |-> field[4],
              freq |-> parts[5][1] - Zero, passno |-> parts[6][1] - Zero]
        ELSE None

BindEntry(from, to, opts) ==
    [fsname |-> from, dir |-> to, type |-> NoType,
     opts |-> IF opts = <<>> THEN Bind ELSE Bind \o <<Comma>> \o opts, freq |-> 0, passno |-> 0]
BindRO(from, to) == BindEntry(from, to, Ro)
ProcEntry ==
    [fsname |-> Proc, dir |-> Proc, type |-> Proc, opts |-> Defaults, freq |-> 0, passno |-> 0]

-----------------------------------------------------------------------------
TypeOK ==
    /\ entry = None \/ \A k \in 1..4 : Fields(entry)[k] \in Seq(0..255)
    /\ text = None \/ text \in Seq(0..255)
    /\ parsed \in BOOLEAN /\ loaded \in BOOLEAN
    /\ {Len(entries), Len(file), Len(saved)} \subseteq 0..MaxEntries

Init ==
    /\ entry = None /\ text = None /\ was = None /\ parsed = FALSE
    /\ entries = <<>> /\ file = <<>> /\ saved = <<>> /\ loaded = FALSE

\* A new entry of the program, with a number set (a member of the struct).  It
\* is converted or, below, listed: not both, which saves states.
Make(e, passno) ==
    /\ entry = None /\ <<entries, file, saved>> = << <<>>, <<>>, <<>> >>
    /\ entry' = [e EXCEPT !.passno = passno] /\ parsed' = FALSE
    /\ UNCHANGED <<text, was, fstab>>

Convert ==
    /\ entry # None /\ ~parsed
    /\ text' = ToText(entry) /\ was' = entry
    /\ UNCHANGED <<entry, parsed, fstab>>

\* The line comes back with white space around it, as a file may have it.
Parse(around) ==
    /\ text # None
    /\ entry' = FromText(around \o text \o around) /\ parsed' = TRUE
    /\ UNCHANGED <<text, was, fstab>>

\* The program adds an entry to a list.
Push(e, passno) ==
    /\ entry = None /\ text = None /\ Len(entries) < MaxEntries
    /\ entries' = Append(entries, [e EXCEPT !.passno = passno]) /\ loaded' = FALSE
    /\ UNCHANGED <<conversion, file, saved>>

\* save() stores the four texts in the same member: the options are written as
\* the device, and what the other three pointers happen to point to, for each
\* line anew, as the rest.  A text may be empty: addmntent(3) writes six texts
\* with a blank after each, and a # as it is.
Line(e, garbage) == <<e.opts, garbage[1], garbage[2], garbage[3], <<Zero + e.freq>>, <<Zero + e.passno>>>>

\* What may be left of the line at which a file ends.
Arrived(line) == UNION {{Append(SubSeq(line, 1, n - 1), start) : start \in Prefixes(line[n])} : n \in 1..6}

\* Opening empties the file.  Any part of the text arrives: addmntent(3) may
\* fail, and what endmntent(3) cannot flush is lost without an exception.
Save ==
    /\ Len(file) <= MaxKept
    /\ \/ file' = <<>>
       \/ \E count \in DOMAIN entries : \E garbage \in [1..count -> [1..3 -> Garbage]] :
             \E last \in Arrived(Line(entries[count], garbage[count])) :
                file' = Append([k \in 1..count - 1 |-> Line(entries[k], garbage[k])], last)
    /\ saved' = entries /\ loaded' = FALSE
    /\ UNCHANGED <<conversion, entries>>

\* getmntent_r(3) takes a line apart at its blanks, so that an empty text is not
\* seen, and the texts behind it move up.
AddWord(words, word) == IF word = <<>> THEN words ELSE Append(words, word)
Words(line) == FoldLeft(AddWord, <<>>, line)
Skipped(line) == Words(line) = <<>> \/ Words(line)[1][1] = Hash
Word(line, k) == IF k <= Len(Words(line)) THEN Words(line)[k] ELSE <<>>
Digit(line, k) == IF IsNumber(Word(line, k)) THEN Word(line, k)[1] - Zero ELSE 0
ReadLine(list, line) ==
    IF Skipped(line) THEN list
    ELSE Append(list, [fsname |-> Word(line, 1), dir |-> Word(line, 2), type |-> Word(line, 3),
                       opts |-> Word(line, 4), freq |-> Digit(line, 5), passno |-> Digit(line, 6)])

LoadUncleared ==   \* mutant of Load
    /\ entries' = FoldLeft(ReadLine, entries, file) /\ loaded' = TRUE
    /\ UNCHANGED <<conversion, file, saved>>

\* The list is cleared once the file is open; a file that cannot be opened
\* leaves it as it is.  A line fits the 8 KiB of the reader's buffer.
Load ==
    /\ entries' = FoldLeft(ReadLine, <<>>, file) /\ loaded' = TRUE
    /\ UNCHANGED <<conversion, file, saved>>

Next ==
    \/ \E from, to \in Name, opts \in {<<>>, Ro} : Make(BindEntry(from, to, opts), 1)
    \/ Make(ProcEntry, 0)
    \/ \E e \in {BindRO(Bind, Proc), [ProcEntry EXCEPT !.opts = <<>>]}, passno \in 0..1 : Push(e, passno)
    \/ Convert \/ Save \/ Load
    \/ \E around \in {<<>>, <<Tab>>, <<NewLine>>} : Parse(around)

Spec == Init /\ [][Next]_vars

-----------------------------------------------------------------------------
(* What is written can be read *)

\* The text of an entry gives the entry back, whatever blanks and backslashes
\* are in its fields and around the line (escape and unescape, MountEntry.cpp
\* 62-104).  Excepted is a device that begins with white space that escape()
\* leaves as it is and trim_copy() removes.
EntryComesBack == (parsed /\ Head(was.fsname) \notin White \ Special) => entry = was

\* The six texts of a line are read as they were written.
Plain(line) == Len(line) = 6 /\ (\A k \in 1..6 : line[k] # <<>>) /\ line[1][1] # Hash

\* A list that is loaded after a save does not have more entries than were
\* saved, and when nothing cut a line short, no text was empty and no device was
\* taken for a comment, they have the numbers of the saved ones in their order,
\* up to where the file ends.  Nothing can be said of the four texts
\* (Fstab.cpp:46-60), and one empty text behind a pointer that save() never sets
\* is enough to lose the numbers too.
ListComesBack == loaded =>
    /\ Len(entries) <= Len(saved)
    /\ (\A k \in DOMAIN file : Plain(file[k])) =>
          \A k \in DOMAIN entries : entries[k].passno = saved[k].passno
                                /\ entries[k].freq = saved[k].freq

\* Both, for a text and for a file.
WrittenIsRead == EntryComesBack /\ ListComesBack
=============================================================================
