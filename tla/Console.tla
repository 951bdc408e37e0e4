------------------------------ MODULE Console ------------------------------
(***************************************************************************)
(* Messages of several processors at once (io.c): serial_printf and        *)
(* vmem_printf hold a lock for the whole of a message, serial_print and    *)
(* vmem_print another one for a string, and each character has a third.    *)
(* What goes to the serial line is also kept in the kernel's log, with a   *)
(* header for each message. A message is the list of what printing it does.*)
(***************************************************************************)
EXTENDS Integers, Sequences, SequencesExt

CONSTANTS Printers,       \* processors
          MaxMessages     \* bound: messages in all

VARIABLES todo,           \* per processor: what is left of its message
          locks,          \* who holds serialf_lock, serial_lock, vmemf_lock, vmem_lock
          out,            \* characters per device: by whom, of which message and string
          log,            \* klog: characters, each with a header before it or not
          started,        \* klog_msg_started
          mixed,          \* history: a second printer, or one on the screen, has been at work
          messages        \* counts up to MaxMessages

consoleVars == <<todo, locks, out, log, started, mixed, messages>>

Free == "free"
Locks == {"serialf", "serial", "vmemf", "vmem"}

Init ==
  /\ todo = [p \in Printers |-> <<>>]
  /\ locks = [l \in Locks |-> Free]
  /\ out = [d \in {"serial", "vmem"} |-> <<>>]
  /\ log = <<>> /\ started = FALSE /\ mixed = FALSE /\ messages = 0

-----------------------------------------------------------------------------
(* A message *)

\* Its parts: text of the format, %s, %S, and a number as text with a width.
Numbers ==
  [kind : {"number"}, text : {<<"-", "1">>, <<"2">>}, width : {0, 3}, zero : BOOLEAN]

Formats ==
  {<<[kind |-> "text", text |-> <<"a">>], [kind |-> "s", text |-> <<"b", "c">>]>>,
   <<[kind |-> "s", text |-> <<"b">>], [kind |-> "text", text |-> <<"a">>]>>,
   <<[kind |-> "S", text |-> <<"b">>]>>} \cup {<<n>> : n \in Numbers}

Many(c, n) == [k \in 1..n |-> c]

\* serial_print_ex_string and vmem_print_ex_string.
Padded(text, width, zero) ==
  IF width <= Len(text) THEN text
  ELSE IF zero /\ text[1] = "-"
  THEN <<"-">> \o Many("0", width - Len(text)) \o Tail(text)
  ELSE Many(IF zero THEN "0" ELSE " ", width - Len(text)) \o text

Op(what, on) == <<[op |-> what, on |-> on]>>
Held(l, ops) == Op("lock", l) \o ops \o Op("unlock", l)

\* Characters of one string, or of none.
Chars(d, text, string) ==
  [k \in 1..Len(text) |-> [op |-> "put", on |-> d, char |-> text[k], string |-> string]]

\* vmem_printc with serial_out: the serial line first.
VmemChars(text, string) ==
  FlattenSeq([k \in 1..Len(text) |-> Chars("serial", <<text[k]>>, FALSE)
                                       \o Chars("vmem", <<text[k]>>, string)])

\* serial_print ends the log's message.
SerialPrint(text) == Held("serial", Chars("serial", text, TRUE) \o Op("ended", "log"))

VmemPrint(text) == Held("vmem", VmemChars(text, TRUE))

\* Mutant of StringPart: the rest of the message is taken for another.
StringEnds(text) == SerialPrint(text)

StringPart(text) == SerialPrint(text) \o Op("goes on", "log")

SerialPart(i) ==
  CASE i.kind = "s" -> StringPart(i.text)
    [] i.kind = "S" -> Chars("serial", i.text, FALSE) \o Op("goes on", "log")
    [] i.kind = "number" -> Chars("serial", Padded(i.text, i.width, i.zero), FALSE)
    [] OTHER -> Chars("serial", i.text, FALSE)

\* Only %S touches the log's message here, and nothing ends it.
VmemPart(i) ==
  CASE i.kind = "s" -> VmemPrint(i.text)
    [] i.kind = "S" -> VmemChars(i.text, FALSE) \o Op("goes on", "log")
    [] i.kind = "number" -> VmemChars(Padded(i.text, i.width, i.zero), FALSE)
    [] OTHER -> VmemChars(i.text, FALSE)

SerialPrintf(format) ==
  Held("serialf", FlattenSeq([k \in 1..Len(format) |-> SerialPart(format[k])])
                    \o Op("ended", "log"))

VmemPrintf(format) ==
  Held("vmemf", FlattenSeq([k \in 1..Len(format) |-> VmemPart(format[k])]))

-----------------------------------------------------------------------------
(* Printing *)

AtWork == {p \in Printers : todo[p] # <<>>}

\* A message is known by its number and by the lock it is printed under, if any.
Begin(p, d, printf, ops) ==
  /\ todo[p] = <<>> /\ messages < MaxMessages /\ messages' = messages + 1
  /\ todo' = [todo EXCEPT ![p] =
       [k \in 1..Len(ops) |-> [step |-> ops[k], of |-> messages, printf |-> printf,
                               first |-> k = Min({n \in 1..Len(ops) : ops[n].op = "put"})]]]
  /\ mixed' = (mixed \/ AtWork # {} \/ d = "vmem")
  /\ UNCHANGED <<locks, out, log, started>>

Call(p) ==
  \/ \E f \in Formats : Begin(p, "serial", "serialf", SerialPrintf(f))
  \/ \E f \in Formats : Begin(p, "vmem", "vmemf", VmemPrintf(f))
  \/ Begin(p, "serial", Free, SerialPrint(<<"d", "e">>))
  \/ Begin(p, "vmem", Free, VmemPrint(<<"d", "e">>))

Now(p) == Head(todo[p])
Done(p) == todo' = [todo EXCEPT ![p] = Tail(@)] /\ UNCHANGED <<mixed, messages>>
Ready(p, what) == todo[p] # <<>> /\ Now(p).step.op = what

Lock(p) ==
  /\ Ready(p, "lock") /\ locks[Now(p).step.on] = Free
  /\ locks' = [locks EXCEPT ![Now(p).step.on] = p]
  /\ Done(p) /\ UNCHANGED <<out, log, started>>

Unlock(p) ==
  /\ Ready(p, "unlock")
  /\ locks' = [locks EXCEPT ![Now(p).step.on] = Free]
  /\ Done(p) /\ UNCHANGED <<out, log, started>>

\* One character under its lock; klog_printc writes a header if a message begins.
Put(p) ==
  /\ Ready(p, "put")
  /\ LET d == Now(p).step.on IN
       /\ out' = [out EXCEPT ![d] =
            Append(@, [by |-> p, of |-> Now(p).of, printf |-> Now(p).printf,
                       char |-> Now(p).step.char, string |-> Now(p).step.string])]
       /\ log' = IF d = "serial" THEN Append(log, [head |-> ~started, first |-> Now(p).first])
                 ELSE log
       /\ started' = (started \/ d = "serial")
  /\ Done(p) /\ UNCHANGED locks

\* klog_msg_started is written without the lock of the character.
Mark(p) ==
  /\ Ready(p, "ended") \/ Ready(p, "goes on")
  /\ started' = (Now(p).step.op = "goes on")
  /\ Done(p) /\ UNCHANGED <<locks, out, log>>

Step(p) == Lock(p) \/ Unlock(p) \/ Put(p) \/ Mark(p)

Next == \E p \in Printers : Call(p) \/ Step(p)

Spec == Init /\ [][Next]_consoleVars

-----------------------------------------------------------------------------
(***************************************************************************)
(* On a device messages of one printf are never mixed with each other, and *)
(* neither are strings with strings; nobody waits for a lock for ever; a   *)
(* number on a device is the number that was given, whatever its width;    *)
(* and while one processor prints on the serial line only, each message in *)
(* the log has a header, at its beginning.                                 *)
(***************************************************************************)
Between(a, c, s) == {s[b] : b \in a + 1..c - 1}

NotMixed(s) ==
  \A a, c \in 1..Len(s) : a < c /\ s[a].of = s[c].of =>
    \A m \in Between(a, c, s) : m.of # s[a].of =>
      ~(m.printf = s[a].printf /\ m.printf # Free) /\ ~(m.string /\ s[a].string /\ s[c].string)

\* The digits without what stands before them, and the sign.
Bare(text) == SelectSeq(text, LAMBDA c : c \notin {" ", "0"})

MessagesWhole ==
  /\ \A d \in DOMAIN out : NotMixed(out[d])
  /\ ~mixed => \A k \in 1..Len(log) : log[k].head = log[k].first
  /\ AtWork = {} \/ \E p \in AtWork : Now(p).step.op # "lock" \/ locks[Now(p).step.on] = Free
  /\ \A n \in Numbers :
       LET t == Padded(n.text, n.width, n.zero)
       IN  /\ Bare(t) = n.text /\ Len(t) >= n.width
           /\ \A k \in 2..Len(t) : t[k] = "-" => t[k - 1] = " "
=============================================================================
