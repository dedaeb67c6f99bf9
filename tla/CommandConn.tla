---------------------------- MODULE CommandConn -----------------------------
(***************************************************************************)
(* A connection through a command: CommandDialer.DialContext starts it and *)
(* joins its pipes to a PipeConn (command.go, pipewrap.go in               *)
(* pkg/dumbproxy/dialer).  A goroutine waits for the command and closes    *)
(* both pipes; the end of the context kills the command.                   *)
(*                                                                         *)
(* CloseRead goes through the Once of CloseWrite (pipewrap.go:85): Close,  *)
(* which calls CloseWrite first, leaves the reading end open.              *)
(***************************************************************************)
EXTENDS Naturals

CONSTANT PipeSize       \* what the command can write ahead of the reader

VARIABLES
    command,    \* running, exited, waited (cmd.Wait has returned)
    stdin,      \* the end of its input the proxy writes: open, closed
    stdout,     \* the end of its output the proxy reads: open, closed
    output,     \* chunks in the pipe
    onceUsed,   \* PipeConn.wc
    reading,    \* a Read: idle, waiting, ended (it got io.EOF or an error)
    killed      \* the context has ended

cmdVars == <<command, stdin, stdout, output, onceUsed, reading, killed>>

CmdInit == /\ command = "running" /\ stdin = "open" /\ stdout = "open"
           /\ output = 0 /\ onceUsed = FALSE
           /\ reading = "idle" /\ killed = FALSE

CommandWrites ==
    /\ command = "running" /\ stdout = "open" /\ output < PipeSize
    /\ output' = output + 1
    /\ UNCHANGED <<command, stdin, stdout, onceUsed, reading, killed>>

\* By itself, or because it is killed.  The pipe keeps what it has written.
CommandExits ==
    /\ command = "running"
    /\ command' = "exited"
    /\ UNCHANGED <<stdin, stdout, output, onceUsed, reading, killed>>

StartReading ==
    /\ reading = "idle"
    /\ reading' = "waiting"
    /\ UNCHANGED <<command, stdin, stdout, output, onceUsed, killed>>

EndReading ==
    /\ reading = "waiting"
    /\ \/ /\ stdout = "open" /\ output > 0
          /\ output' = output - 1 /\ reading' = "idle"
       \/ /\ stdout = "closed" \/ (output = 0 /\ command # "running")
          /\ reading' = "ended" /\ UNCHANGED output
    /\ UNCHANGED <<command, stdin, stdout, onceUsed, killed>>

\* A slip: only the input is closed when the command is through.
WaitClosesInput ==
    /\ command = "exited"
    /\ command' = "waited" /\ stdin' = "closed"
    /\ UNCHANGED <<stdout, output, onceUsed, reading, killed>>

\* The goroutine of DialContext.  cmd.Wait closes the pipes itself.
WaitReturns ==
    /\ command = "exited"
    /\ command' = "waited" /\ stdin' = "closed" /\ stdout' = "closed"
    /\ output' = 0
    /\ UNCHANGED <<onceUsed, reading, killed>>

\* PipeConn.Close, or CloseWrite: the one Once lets the first function in.
ConnClose ==
    /\ ~onceUsed
    /\ onceUsed' = TRUE /\ stdin' = "closed"
    /\ UNCHANGED <<command, stdout, output, reading, killed>>

EndCommandContext ==
    /\ ~killed
    /\ killed' = TRUE
    /\ UNCHANGED <<command, stdin, stdout, output, onceUsed, reading>>

CmdNext == \/ CommandWrites \/ CommandExits \/ StartReading \/ EndReading
           \/ WaitReturns \/ ConnClose \/ EndCommandContext

\* The reader and the waiting goroutine run, and a command that is killed dies.
CmdFairness == /\ WF_cmdVars(EndReading) /\ WF_cmdVars(WaitReturns)
               /\ WF_cmdVars(killed /\ CommandExits)

CmdSpec == CmdInit /\ [][CmdNext]_cmdVars /\ CmdFairness

-----------------------------------------------------------------------------

\* command.go:48-76: the end of the context is the end of the command, of both pipes and
\* of a read that waits, whatever part of the connection was closed before (Close ends
\* the writing half only, and a command that reads to its end may never write again).
CancelFreesCommand ==
    killed ~> (command = "waited" /\ stdin = "closed" /\ stdout = "closed"
                 /\ reading # "waiting")
=============================================================================
