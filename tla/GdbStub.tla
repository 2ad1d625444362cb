------------------------------ MODULE GdbStub -------------------------------
(***************************************************************************)
(* The GDB stub of the guest loader (common/guest/loader/monitor), which   *)
(* runs in guest 1 and debugs guest 0 through the monitor device.          *)
(*                                                                         *)
(* Four parties: the debugger at the other end of the serial line, the     *)
(* loop of gdb(), the handler of the monitoring interrupt, which interrupts*)
(* that loop, and the hypervisor with the target (module Monitor).  The    *)
(* hypervisor and the loader talk through one record in shared memory,     *)
(* without a queue: mail.                                                  *)
(*                                                                         *)
(* The line carries packets and the characters + and -.  At most Noise of  *)
(* the packets arrive damaged; the single characters arrive as they were   *)
(* sent.  The debugger keeps to the remote protocol: one command at a time,*)
(* and none while the target runs.                                         *)
(***************************************************************************)
EXTENDS Monitor, Sequences, TLC

CONSTANTS
  Noise,        \* packets that the line damages
  ZeroWords     \* words up to 0x40008040 or from 0xff000000, which are not read

ASSUME StubAssumption == Noise \in Nat /\ ZeroWords \subseteq Words

VARIABLES
  host,         \* the debugger: what it does and its command
  up, down,     \* the characters on the line, to the stub and to the debugger
  damaged,      \* how many packets the line has damaged
  main,         \* where gdb() is, and the command it works on
  handler,      \* where monitoring_handler() is
  reply_buf,
  target_regs,  \* the registers that the handler took from the mail
  mail,         \* struct monitoring_data: type, guest_info, and behind it a dump or a list
  virqs,        \* monitoring interrupts that guest 1 has not taken
  refused       \* history: the last one was refused by virq_inject or gic_inject

stub  == <<main, handler, reply_buf, target_regs>>
line  == <<up, down, damaged>>
gdbVars == <<host, line, stub, mail, virqs, refused>>
gdbAll == <<gdbVars, vars>>

\* The cases of gdb().  A reply of fixed text answers ?, H, and q, which stands for what it does
\* not know too; g stands for p, m and M have a word's length, and M is a break, its restoration
\* or other data (write).  s, P and G are cases without a statement, and s stands for the three.
Simple == {"?", "H", "q"}
Ignored == {"s"}

Commands == [op : Simple \union Ignored \union {"g", "c", "k", "write"}, a : {0}]
              \union [op : {"m"}, a : Words] \union [op : {"break", "restore"}, a : BreakWords]
NoCommand == [op |-> "none", a |-> 0]

GdbInit(p) ==
  /\ host = [does |-> "away", cmd |-> NoCommand]
  /\ up = <<>> /\ down = <<>> /\ damaged = 0
  /\ main = [at |-> p, cmd |-> NoCommand] /\ handler = "none"
  /\ reply_buf = "" /\ target_regs = 0
  /\ mail = [type |-> "LIST", va |-> 0, regs |-> 0, dump |-> "own", list |-> <<>>]
  /\ virqs = 0 /\ refused = FALSE

-----------------------------------------------------------------------------
(* The line *)

Packet(body, ok) == [kind |-> "packet", body |-> body, ok |-> ok]
Char(c)          == [kind |-> c]

\* a packet is put on the line, and perhaps damaged
Damage(ok) == /\ ok \/ damaged < Noise
              /\ damaged' = IF ok THEN damaged ELSE damaged + 1

\* what is sent while no debugger is there is read by nobody
ToHost(c) == IF host.does = "away" THEN down ELSE Append(down, c)

\* put_packet up to the uart_getc
PutPacket(body) ==
  \E ok \in BOOLEAN : Damage(ok) /\ down' = ToHost(Packet(body, ok)) /\ UNCHANGED up

\* the uart_getc of put_packet: anything but + sends the packet again.  In MODE_LOADER
\* uart_getc sends every character back.
Acknowledged == up # <<>> /\ Head(up).kind = "+"
Refused == up # <<>> /\ Head(up).kind # "+"
TakeEcho == /\ up' = Tail(up) /\ UNCHANGED damaged
            /\ down' = IF Head(up).kind = "packet" THEN down ELSE ToHost(Head(up))

-----------------------------------------------------------------------------
(* The debugger *)

\* a word as monitor_dump_guest_memory shows it: the debugger's own breakpoint for HVC_TRAP,
\* and nothing but zeros where it is not supported
View(a) == IF a \in ZeroWords THEN "zero" ELSE IF mem[a] = "hvc" THEN "break" ELSE "own"

\* the protocol's answer to a command
Answer(c) ==
  CASE c.op = "?" -> "S05" [] c.op = "g" -> ToString(at) [] c.op = "m" -> View(c.a)
    [] c.op = "q" -> "" [] OTHER -> "OK"

\* a debugger comes to the stub, and forgets what is on the line
HostAttach ==
  /\ host.does = "away" /\ main.at = "get" /\ up = <<>>
  /\ host' = [host EXCEPT !.does = "idle"]
  /\ down' = <<>> /\ UNCHANGED <<up, damaged, stub, mail, virqs, refused, vars>>

HostPut(c) ==
  \E ok \in BOOLEAN : Damage(ok) /\ up' = Append(up, Packet(c, ok))

\* breaks go where none is, and away where one is
HostSend(c) ==
  /\ host.does = "idle"
  /\ c.op = "break" => mem[c.a] = "own"
  /\ c.op = "restore" => type[c.a] = {"break"}
  /\ host' = [does |-> "acking", cmd |-> c]
  /\ HostPut(c) /\ UNCHANGED <<down, stub, mail, virqs, refused, vars>>

\* it has its acknowledgement: + ends the wait, - repeats the command, and a packet is the
\* repetition of an old one
HostAcking ==
  /\ host.does = "acking" /\ down # <<>>
  /\ down' = Tail(down)
  /\ CASE Head(down).kind = "+" ->
            /\ host' = [host EXCEPT !.does = IF host.cmd.op = "k" THEN "away" ELSE "waiting"]
            /\ UNCHANGED <<up, damaged>>
       [] Head(down).kind = "-" -> HostPut(host.cmd) /\ UNCHANGED host
       [] OTHER -> up' = Append(up, Char("+")) /\ UNCHANGED <<host, damaged>>
  /\ UNCHANGED <<stub, mail, virqs, refused, vars>>

HostAccepts == host.does = "waiting" /\ down # <<>> /\ Head(down).kind = "packet" /\ Head(down).ok

\* it has its answer, asks for it again, or goes on waiting
HostWaiting ==
  /\ host.does = "waiting" /\ down # <<>>
  /\ down' = Tail(down) /\ UNCHANGED damaged
  /\ host' = IF HostAccepts THEN [host EXCEPT !.does = "idle"] ELSE host
  /\ up' = CASE HostAccepts -> Append(up, Char("+"))
             [] Head(down).kind = "packet" /\ ~ HostAccepts -> Append(up, Char("-"))
             [] OTHER -> up
  /\ UNCHANGED <<stub, mail, virqs, refused, vars>>

\* nothing comes any more: the command, or the acknowledgement, was lost
HostGivesUp ==
  /\ host.does \in {"acking", "waiting"} /\ stopped
  /\ up = <<>> /\ down = <<>> /\ main.at = "get" /\ handler = "none" /\ virqs = 0
  /\ host' = [host EXCEPT !.does = "idle"]
  /\ UNCHANGED <<line, stub, mail, virqs, refused, vars>>

-----------------------------------------------------------------------------
(* The handler of the monitoring interrupt *)

\* monitor_notify_guest: the injection may be refused (no list register and no room in the
\* queue, or one that waits already), and nobody looks at its result
Notify(type_, m) ==
  /\ mail' = [m EXCEPT !.type = type_]
  /\ \/ virqs' = virqs + 1 /\ refused' = FALSE
     \/ UNCHANGED virqs /\ refused' = TRUE

\* monitor_register and monitor_dump_guest_memory, as the device's readers ask for them
AskRegisters == Notify("REGISTER", [mail EXCEPT !.regs = at])
AskMemory(a) == Notify("MEMORY", [mail EXCEPT !.dump = View(a)])

\* gic_interrupt: one interrupt at a time, once gic_init and monitoring_init have run
Interrupted == virqs > 0 /\ handler = "none" /\ main.at # "start"

\* fault: the mail of a break is not looked at
TakeMailDeaf ==
  /\ Interrupted
  /\ virqs' = virqs - 1
  /\ target_regs' = IF mail.type = "REGISTER" THEN mail.regs ELSE target_regs
  /\ UNCHANGED <<main, handler, reply_buf, host, line, mail, refused>>

\* monitoring_handler, as far as the stub needs it
TakeMail ==
  /\ Interrupted
  /\ virqs' = virqs - 1
  /\ target_regs' = IF mail.type = "REGISTER" THEN mail.regs ELSE target_regs
  /\ handler' = IF mail.type = "BREAK" THEN "signal" ELSE "none"
  /\ UNCHANGED <<main, reply_buf, host, line, mail, refused>>

\* reply_signal_from_break: S05, until it is acknowledged
Signal ==
  /\ handler = "signal"
  /\ PutPacket("S05")
  /\ handler' = "signalled"
  /\ UNCHANGED <<main, reply_buf, target_regs, host, mail, virqs, refused, vars>>

SignalAck ==
  /\ handler = "signalled"
  /\ \/ Acknowledged /\ handler' = "none"
     \/ Refused /\ handler' = "signal"
  /\ TakeEcho
  /\ UNCHANGED <<main, reply_buf, target_regs, host, mail, virqs, refused, vars>>

-----------------------------------------------------------------------------
(* gdb() *)

\* the loop runs while nothing interrupts it
Loop(p) == main.at = p /\ handler = "none" /\ virqs = 0

\* the gdb command of the console
GdbStart ==
  /\ Loop("cli")
  /\ stopped' = TRUE /\ UNCHANGED <<mem, type, saved, at>>          \* *base_stop
  /\ main' = [main EXCEPT !.at = "get"]
  /\ UNCHANGED <<host, line, handler, reply_buf, target_regs, mail, virqs, refused>>

\* get_packet: what is no packet is skipped, a packet is acknowledged or refused
GetPacket ==
  /\ Loop("get") /\ up # <<>>
  /\ up' = Tail(up) /\ UNCHANGED damaged
  /\ IF Head(up).kind # "packet" THEN UNCHANGED <<down, main>>
     ELSE IF Head(up).ok
     THEN down' = ToHost(Char("+")) /\ main' = [at |-> "execute", cmd |-> Head(up).body]
     ELSE down' = ToHost(Char("-")) /\ UNCHANGED main
  /\ UNCHANGED <<handler, reply_buf, target_regs, host, mail, virqs, refused, vars>>

Replies(body) == reply_buf' = body /\ main' = [main EXCEPT !.at = "put"]

\* reply_signal, reply_ok, and the empty reply of cmd_query and default
CmdSimple ==
  /\ Loop("execute") /\ main.cmd.op \in Simple
  /\ Replies(CASE main.cmd.op = "?" -> "S05" [] main.cmd.op = "H" -> "OK" [] main.cmd.op = "q" -> "")
  /\ UNCHANGED <<handler, target_regs, host, line, mail, virqs, refused, vars>>

\* s, P and G: reply_buf goes out as the command before has left it
CmdIgnored ==
  /\ Loop("execute") /\ main.cmd.op \in Ignored
  /\ Replies(reply_buf)
  /\ UNCHANGED <<handler, target_regs, host, line, mail, virqs, refused, vars>>

\* fault: the device is not asked
CmdRegistersOld ==
  /\ Loop("execute") /\ main.cmd.op = "g"
  /\ main' = [main EXCEPT !.at = "registers"]
  /\ UNCHANGED <<handler, reply_buf, target_regs, host, line, mail, virqs, refused, vars>>

\* g_reply and cmd_get_register: get_general_reg asks the device (monitor_register) ...
CmdRegisters ==
  /\ Loop("execute") /\ main.cmd.op = "g"
  /\ AskRegisters
  /\ main' = [main EXCEPT !.at = "registers"]
  /\ UNCHANGED <<handler, reply_buf, target_regs, host, line, vars>>

\* ... and takes what the handler left
Registers ==
  /\ Loop("registers")
  /\ Replies(ToString(target_regs))
  /\ UNCHANGED <<handler, target_regs, host, line, mail, virqs, refused, vars>>

\* cmd_get_memory asks for a word ...
CmdGetMemory ==
  /\ Loop("execute") /\ main.cmd.op = "m"
  /\ AskMemory(main.cmd.a)
  /\ main' = [main EXCEPT !.at = "memory"]
  /\ UNCHANGED <<handler, reply_buf, target_regs, host, line, vars>>

\* ... and reads it from the shared memory
GetMemory ==
  /\ Loop("memory")
  /\ Replies(mail.dump)
  /\ UNCHANGED <<handler, target_regs, host, line, mail, virqs, refused, vars>>

\* cmd_put_memory: the word goes through the shared memory to monitor_write_memory
CmdPutMemory ==
  /\ Loop("execute")
  /\ \/ main.cmd.op = "break" /\ Insert(main.cmd.a, "break")
     \/ main.cmd.op = "restore" /\ Found(main.cmd.a) /\ Restore(main.cmd.a)
     \/ main.cmd.op = "restore" /\ ~ Found(main.cmd.a) /\ WriteAside
     \/ main.cmd.op = "write" /\ WriteAside
  /\ mail' = [mail EXCEPT !.dump = [break |-> "break", restore |-> "own", write |-> "data"][main.cmd.op]]
  /\ Replies("OK")
  /\ UNCHANGED <<handler, target_regs, host, line, virqs, refused>>

\* *base_go, and no reply; k goes back to the console
CmdResume ==
  /\ Loop("execute") /\ main.cmd.op \in {"c", "k"}
  /\ Run
  /\ main' = [main EXCEPT !.at = IF main.cmd.op = "k" THEN "cli" ELSE "get"]
  /\ UNCHANGED <<handler, reply_buf, target_regs, host, line, mail, virqs, refused>>

\* put_packet(reply_buf)
Reply ==
  /\ Loop("put")
  /\ PutPacket(reply_buf)
  /\ main' = [main EXCEPT !.at = "ack"]
  /\ UNCHANGED <<handler, reply_buf, target_regs, host, mail, virqs, refused, vars>>

ReplyAck ==
  /\ Loop("ack")
  /\ \/ Acknowledged /\ main' = [main EXCEPT !.at = "get"]
     \/ Refused /\ main' = [main EXCEPT !.at = "put"]
  /\ TakeEcho
  /\ UNCHANGED <<handler, reply_buf, target_regs, host, mail, virqs, refused, vars>>

Stub == \/ GetPacket \/ CmdSimple \/ CmdIgnored \/ CmdRegisters \/ Registers \/ CmdGetMemory \/ GetMemory
        \/ CmdPutMemory \/ CmdResume \/ Reply \/ ReplyAck

Debugger == \/ HostAttach \/ \E c \in Commands : HostSend(c)
            \/ HostAcking \/ HostWaiting \/ HostGivesUp

(***************************************************************************)
(* The target's breaks go into the mail (vdev_hvc_monitor_write).  The     *)
(* commands of the monitor's console are left to module Loader.            *)
(***************************************************************************)
TargetBreak == BreakTrap /\ Notify("BREAK", mail)
KeepStub == UNCHANGED <<host, line, handler, reply_buf, target_regs>>
TargetInGdb == (TargetBreak \/ (Execute /\ UNCHANGED <<mail, virqs, refused>>)) /\ UNCHANGED main /\ KeepStub

GdbNext == \/ GdbStart \/ Stub \/ Debugger \/ Signal \/ SignalAck
           \/ (TakeMail /\ UNCHANGED vars) \/ TargetInGdb

\* the two ends of the line go on, and interrupts are taken; commands need not come
GdbFairness ==
  /\ WF_gdbAll(Stub) /\ WF_gdbAll(TakeMail /\ UNCHANGED vars) /\ WF_gdbAll(Signal \/ SignalAck)
  /\ WF_gdbAll(HostAcking \/ HostWaiting)

GdbSpec == Init /\ GdbInit("cli") /\ [][GdbNext]_gdbAll /\ GdbFairness

-----------------------------------------------------------------------------
(* Properties *)

\* An answer that the debugger takes is the answer to its command, and true of the target at
\* that moment: the registers and the memory went through one shared record and two contexts,
\* packets were damaged and sent again, and a break is there or away when the stub says OK.
\* Three answers say less: the registers when the interrupt that brings them was refused, which
\* may be any old ones; the OK to other data, which do not reach the target; and the answer to
\* s, P and G, which is whatever reply_buf still holds.
True(c, body) ==
  CASE c.op = "break" -> body = "OK" /\ mem[c.a] = "hvc"
    [] c.op = "restore" -> body = "OK" /\ mem[c.a] = "own"
    [] c.op = "c" -> body = "S05" /\ stopped
    [] c.op = "g" -> (body = Answer(c) \/ refused) /\ stopped
    [] c.op \in Ignored -> body = reply_buf /\ stopped
    [] OTHER -> body = Answer(c) /\ stopped

Answered == [][HostAccepts /\ host'.does = "idle" => True(host.cmd, Head(down).body)]_gdbAll

\* Every answer is the answer to its command: what a debugger relies on, and what the cases
\* that do nothing break.
OwnAnswers ==
  [][HostAccepts /\ host'.does = "idle" /\ host.cmd.op = "s" => Head(down).body = "S05"]_gdbAll

\* The debugger hears of every break whose interrupt was accepted: when the target has stopped
\* while the debugger waits for it, the wait ends.
StopReported == (stopped /\ host.cmd.op = "c" /\ virqs > 0) ~> (host.does # "waiting")

\* The same of every break: not so when its interrupt is refused.
EveryStopReported == (stopped /\ host.cmd.op = "c" /\ main.at = "get") ~> (host.does # "waiting")
=============================================================================
