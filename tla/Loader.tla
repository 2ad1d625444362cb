------------------------------- MODULE Loader -------------------------------
(***************************************************************************)
(* The guest loader of the monitoring guest (common/guest): its start, the *)
(* autoboot timer, the console with its three commands, the monitor's      *)
(* console with the symbol table, the GDB stub (module GdbStub), and the   *)
(* tags a Linux guest is started with.                                     *)
(*                                                                         *)
(* Addresses of the target are word numbers, as in Monitor; a line of its  *)
(* System.map has one, a type letter (text or not) and a name.             *)
(***************************************************************************)
EXTENDS GdbStub, SequencesExt

CONSTANTS
  Maps,         \* System.map files: sequences of [va, text, name], by address, up to "_end"
  PanicWord,    \* where monitor_detect_fault sets its trace
  CmdLengths,   \* strlen of the command line
  BootCount,    \* bootcount, the ticks before the guest boots by itself
  MaxVirqs      \* a trace happens only while fewer interrupts wait

ASSUME LoaderAssumption ==
  /\ Maps \subseteq Seq([va : Nat, text : BOOLEAN, name : STRING])
  /\ \A m \in Maps : m # <<>> /\ Last(m).name = "_end" /\ \A i, j \in DOMAIN m : i < j => m[i].va <= m[j].va
  /\ PanicWord \in TraceWords /\ CmdLengths \subseteq Nat
  /\ BootCount \in Nat /\ MaxVirqs \in Nat

VARIABLES
  map,          \* the file at system_map_start
  symbols,      \* system_maps_code, up to num_symbols_code
  timer,        \* the loader's timer: masked, bootcount, autoboot
  recovery_cnt,
  boot          \* the guest that was started, with the tags in memory

loaderVars == <<map, symbols, timer, recovery_cnt, boot>>
all == <<loaderVars, gdbVars, vars>>

NotFound == -1
Nothing == [kind |-> "none", tags |-> <<>>]

-----------------------------------------------------------------------------
(* Symbols *)

\* fault: a line that is no text is kept
ParseAll(file) == file

\* number_symbol and symbol_parser_init: the text lines, in the order of the file; any other
\* line is overwritten by the next
Parse(file) ==
  LET kept[i \in 0..Len(file)] ==
        IF i = 0 THEN <<>>
        ELSE IF file[i].text THEN Append(kept[i - 1], file[i]) ELSE kept[i - 1]
  IN kept[Len(file)]

\* symbol_binary_search(map, key, 0, n - 1), from its loop on with imid as it was
Search(table, key) ==
  LET n == Len(table)
      loop[r \in (0..n) \X (-1..n - 1) \X (-1..n - 1)] ==
        LET imin == r[1]   imax == r[2]   imid == (imin + imax) \div 2
        IN IF imax < imin THEN r[3]
           ELSE CASE table[imid + 1].va = key -> imid
                  [] table[imid + 1].va < key -> loop[<<imid + 1, imax, imid>>]
                  [] OTHER -> loop[<<imin, imid - 1, imid>>]
      last == loop[<<0, n - 1, -1>>]
  IN IF table[last + 1].va > key THEN last - 1 ELSE last

\* symbol_getter_from_va: the name, and whether " + 0x" and the distance follow it
Name(va) ==
  LET i == Search(symbols, va)
  IN IF i = NotFound THEN [name |-> "none", beyond |-> FALSE]
     ELSE [name |-> symbols[i + 1].name, beyond |-> symbols[i + 1].va # va]

-----------------------------------------------------------------------------
(* Start *)

LoaderInit ==
  /\ Init /\ GdbInit("start")
  /\ map \in Maps /\ symbols = <<>>
  /\ timer = [masked |-> TRUE, bootcount |-> BootCount, autoboot |-> FALSE]
  /\ recovery_cnt = 0 /\ boot = Nothing

Goes(p) == main' = [main EXCEPT !.at = p]
KeepMail == UNCHANGED <<mail, virqs, refused>>

\* guestloader_init with gic_init, monitoring_init and timer_init
Start ==
  /\ main.at = "start" /\ Goes("wait")
  /\ symbols' = Parse(map)
  /\ timer' = [timer EXCEPT !.masked = FALSE, !.autoboot = FALSE]
  /\ UNCHANGED <<map, recovery_cnt, boot, vars>> /\ KeepStub /\ KeepMail

\* gic_interrupt with timer_handler; bootcount goes on down until the timer is masked
TimerIrq ==
  /\ ~ timer.masked /\ handler = "none" /\ timer.bootcount >= 0
  /\ timer' = [timer EXCEPT !.autoboot = @ \/ timer.bootcount = 0, !.bootcount = @ - 1]
  /\ UNCHANGED <<map, symbols, recovery_cnt, boot, gdbVars, vars>>

\* fault: the size of the command line's tag is rounded down
CmdlineWordsShort(len) == (8 + len + 1) \div 4

\* the words of the command line's tag, setup_cmdline_tag
CmdlineWords(len) == (8 + len + 1 + 4) \div 4

\* tag_size of the tags of fixed size: the header's two words and the structure
TagSize == [core |-> 5, revision |-> 3, mem |-> 4, initrd2 |-> 4]

\* linuxloader_setup_atags: each tag at the end of the one before it
Atags(len, initrd) ==
  LET fixed(tag) == [tag |-> tag, size |-> TagSize[tag]]
      sizes == <<fixed("core"), fixed("revision"), fixed("mem")>>
               \o (IF initrd THEN <<fixed("initrd2")>> ELSE <<>>)
               \o (IF len > 0 THEN <<[tag |-> "cmdline", size |-> CmdlineWords(len)]>> ELSE <<>>)
               \o <<[tag |-> "none", size |-> 0]>>
      start[i \in 1..Len(sizes)] == IF i = 1 THEN 0 ELSE start[i - 1] + sizes[i - 1].size
  IN [i \in 1..Len(sizes) |-> [tag |-> sizes[i].tag, size |-> sizes[i].size, start |-> start[i]]]

\* loader_boot_guest: Linux with its tags at the start of memory, or a bare-metal guest
Boot ==
  /\ \/ \E len \in CmdLengths, initrd \in BOOLEAN :
          boot' = [kind |-> "linux", len |-> len, tags |-> Atags(len, initrd)]
     \/ boot' = [kind |-> "bm", len |-> 0, tags |-> <<>>]
  /\ Goes("booted")

\* main and guestloader_autoboot
Autoboot ==
  /\ Loop("wait") /\ timer.autoboot
  /\ timer' = [timer EXCEPT !.masked = TRUE]
  /\ Boot
  /\ UNCHANGED <<map, symbols, recovery_cnt, vars>> /\ KeepStub /\ KeepMail

\* main and guestloader_cliboot: a key was pressed
Cliboot ==
  /\ Loop("wait") /\ ~ timer.autoboot
  /\ timer' = [timer EXCEPT !.masked = TRUE]
  /\ Goes("cli")
  /\ UNCHANGED <<map, symbols, recovery_cnt, boot, vars>> /\ KeepStub /\ KeepMail

\* cli_exec_cmd: boot, monitor, gdb (GdbStart)
CliBoot ==
  /\ Loop("cli") /\ Boot
  /\ UNCHANGED <<map, symbols, timer, recovery_cnt, vars>> /\ KeepStub /\ KeepMail

CliMonitor ==
  /\ Loop("cli") /\ Goes("monitor")
  /\ UNCHANGED <<loaderVars, vars>> /\ KeepStub /\ KeepMail

-----------------------------------------------------------------------------
(* The monitor's console *)

\* mp, mc, bp, bc, go, stop, clear and rb write to or read from one register of the device
MonitorPoint ==
  /\ Loop("monitor")
  /\ \/ \E a \in TraceWords : Insert(a, "trace") \/ Clean(a, "trace")
     \/ \E a \in BreakWords : Insert(a, "break") \/ Clean(a, "break")
     \/ Run \/ Stop \/ CleanAll \/ Reboot
  /\ UNCHANGED <<loaderVars, main>> /\ KeepStub /\ KeepMail

\* exit
MonitorExit ==
  /\ Loop("monitor") /\ Goes("cli") /\ CleanAll
  /\ UNCHANGED loaderVars /\ KeepStub /\ KeepMail

\* rc: set_recovery, and monitor_detect_fault's trace
MonitorRecovery ==
  /\ Loop("monitor")
  /\ recovery_cnt' = 1 /\ Insert(PanicWord, "trace")
  /\ UNCHANGED <<map, symbols, timer, boot, main>> /\ KeepStub /\ KeepMail

\* x and reg
MonitorShow ==
  /\ Loop("monitor")
  /\ AskRegisters \/ \E a \in Words : AskMemory(a)
  /\ UNCHANGED <<loaderVars, main, vars>> /\ KeepStub

\* monitor_list: a word pair for each entry, but the pointer moves by one word
ListWords ==
  LET entries == SetToSortSeq({a \in Words : Found(a)}, <)
      n == Len(entries)
  IN [i \in 1..n + 1 |-> IF i <= n THEN [va |-> entries[i]] ELSE [inst |-> saved[entries[n]]]]

\* ls
MonitorList ==
  /\ Loop("monitor") /\ \E a \in Words : Found(a)
  /\ Notify("LIST", [mail EXCEPT !.list = ListWords])
  /\ UNCHANGED <<loaderVars, main, vars>> /\ KeepStub

\* monitoring_handler: a trace of panic restarts the target, once
Handler ==
  /\ TakeMail
  /\ IF mail.type = "MONITORING" /\ Name(mail.va) = [name |-> "panic", beyond |-> FALSE]
        /\ recovery_cnt = 1
     THEN recovery_cnt' = 0 /\ Reboot
     ELSE UNCHANGED <<recovery_cnt, vars>>
  /\ UNCHANGED <<map, symbols, timer, boot>>

\* the user answers the packet that the handler has put on the console
Typed ==
  /\ handler = "signalled" /\ host.does = "away" /\ up = <<>>
  /\ \E c \in {"+", "x"} : up' = <<Char(c)>>
  /\ UNCHANGED <<down, damaged, host, stub, mail, virqs, refused, loaderVars, vars>>

-----------------------------------------------------------------------------
(* The target, guest 0 *)

\* vdev_hvc_monitor_write: what stops it (TargetBreak), or is only reported, goes into the mail
TargetTrace == TraceTrap /\ virqs < MaxVirqs /\ Notify("MONITORING", [mail EXCEPT !.va = at])
TargetRuns == (Execute \/ RetrapTrap \/ OtherTrap) /\ KeepMail

Target ==
  /\ TargetBreak \/ TargetTrace \/ TargetRuns
  /\ UNCHANGED <<loaderVars, main>> /\ KeepStub

Gdb == (GdbStart \/ Signal \/ SignalAck) /\ UNCHANGED loaderVars

Console == \/ Start \/ TimerIrq \/ Autoboot \/ Cliboot \/ CliBoot \/ CliMonitor
           \/ MonitorPoint \/ MonitorExit \/ MonitorRecovery \/ MonitorShow \/ MonitorList \/ Typed

\* the model ends where the guest starts
LoaderNext == main.at # "booted" /\ (Console \/ Handler \/ Gdb \/ Target)

LoaderSpec == LoaderInit /\ [][LoaderNext]_all

-----------------------------------------------------------------------------
(* Properties *)

\* A trace is reported under the name of the function it is in: the last text symbol at or
\* before the address, found in a table that was filtered and is searched by halves.
Named ==
  \A va \in 0..Last(map).va - 1 :
    LET before == {i \in DOMAIN map : map[i].text /\ map[i].va <= va}
    IN symbols # <<>> /\ before # {} =>
         \E i \in before : /\ \A j \in before : map[j].va <= map[i].va
                           /\ Name(va) = [name |-> map[i].name, beyond |-> map[i].va # va]

\* A Linux guest that walks the list from its start by the sizes meets the tags that were
\* written and then the end, and no tag was written over the text of another.
TagsWalk ==
  boot.kind = "linux" =>
    LET t == boot.tags
    IN /\ t[1].tag = "core" /\ Last(t).tag = "none" /\ Last(t).size = 0
       /\ \A i \in 1..Len(t) - 1 :
            /\ t[i].size > 0 /\ t[i + 1].start = t[i].start + t[i].size
            /\ t[i].tag = "cmdline" => 4 * t[i].start + 8 + boot.len + 1 <= 4 * t[i + 1].start

\* The list shows each point with the instruction that is saved for it ("saved va -> inst",
\* monitor.c:106): the handler takes an address and its instruction from two words and goes on
\* with the second.
ListTrue == \A i \in 1..Len(mail.list) - 1 : "va" \in DOMAIN mail.list[i] /\ "inst" \in DOMAIN mail.list[i + 1]
=============================================================================
