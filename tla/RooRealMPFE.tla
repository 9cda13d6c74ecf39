---------------------------- MODULE RooRealMPFE ----------------------------
(***************************************************************************)
(* A test statistic on several processes: RooAbsTestStatistic in MPMaster  *)
(* mode and its RooRealMPFEs, each the client of a server process that was *)
(* forked with one partition of the data. Client and server are joined by  *)
(* a BidirMMapPipe, whose writes wait in a buffer for the next flush.      *)
(* The program evaluates the statistic, fits it, turns offsets and squared *)
(* weights on and off, and deletes it.                                     *)
(*                                                                         *)
(* The value of a partition is what it was computed of: the parameters,    *)
(* the kind of weights, and the offset that is subtracted, which is a set  *)
(* with the parameters and weights it was computed of, or empty.           *)
(***************************************************************************)
EXTENDS Naturals, Sequences

CONSTANTS N,           \* _nCPU
          NPar,        \* number of parameters
          Values,      \* of parameters
          Bad(_, _),   \* Bad(i, at): partition i logs an error at these values
          Zero(_, _),  \* Zero(i, here): partition i is worth exactly 0 here, at
                       \* these values and with this kind of weights
          FitModes,    \* error logging modes of the fits
          MaxBuffered  \* bound: messages that wait for a flush

ASSUME ConstantsAssumption ==
  /\ N \in Nat \ {0} /\ NPar \in Nat
  /\ FitModes \subseteq {"CollectErrors", "CountErrors"}

Clients == 1..N
Points == [1..NPar -> Values]
Modes == {"PrintErrors", "CollectErrors", "CountErrors"}

VARIABLES params,    \* parameters of the program
          dirty,     \* value dirty flag of the MPMaster
          init,      \* _init of the MPMaster
          inFit,     \* RooMinimizer::fitFCN: offset shown
          mode,      \* evalErrorLoggingMode of the program
          pc, k,     \* what the program is doing, with which RooRealMPFE
          part,      \* _value of the RooRealMPFEs
          reported,  \* RooRealMPFEs that logged errors in this evaluation
          saved,     \* _saveVars
          forced,    \* _forceCalc
          changed,   \* _valueChanged of the update master
          remote,    \* _remoteEvalErrorLoggingState
          buffer, pipe, reply,  \* the pipes
          server,    \* the server processes
          asked,     \* history: switches the program asked for
          silent     \* history: a switch since the last evaluation

programVars == <<params, dirty, init, inFit, mode>>
clientVars == <<part, reported, saved, forced, changed, remote>>
pipeVars == <<buffer, pipe, reply>>
historyVars == <<asked, silent>>
vars == <<programVars, pc, k, clientVars, pipeVars, server, historyVars>>

Part(at, squared, minus) == [at |-> at, squared |-> squared, minus |-> minus]

(* A server process as it is forked: a copy of the program's statistic.    *)
Forked(p, m) ==
  [alive |-> TRUE, vals |-> p, mode |-> m, errors |-> 0,
   squared |-> FALSE, doOffset |-> FALSE, offset |-> {}, otherOffset |-> {},
   dirty |-> TRUE, cached |-> Part(p, FALSE, {}), value |-> Part(p, FALSE, {})]

Init ==
  /\ params \in Points
  /\ dirty = TRUE /\ init = FALSE /\ inFit = FALSE /\ mode = "PrintErrors"
  /\ pc = "idle" /\ k = 1
  /\ part = [i \in Clients |-> Part(params, FALSE, {})]
  /\ reported = {}
  /\ saved = [i \in Clients |-> params]
  /\ forced = [i \in Clients |-> TRUE]
  /\ changed = [j \in 1..NPar |-> FALSE]
  /\ remote = [i \in Clients |-> "PrintErrors"]
  /\ buffer = [i \in Clients |-> <<>>]
  /\ pipe = buffer /\ reply = buffer
  /\ server = [i \in Clients |-> [Forked(params, mode) EXCEPT !.alive = FALSE]]
  /\ asked = [squared |-> FALSE, doOffset |-> FALSE]
  /\ silent = FALSE

Idle == pc = "idle"

---------------------------------------------------------------------------
(* The program.                                                            *)
(* RooRealVar::setVal makes the master, a client of the parameters, dirty. *)
Set(new) ==
  /\ params' = new
  /\ dirty' = (dirty \/ new # params)

SetVal(new) ==
  /\ Idle /\ ~inFit /\ new # params
  /\ Set(new)
  /\ UNCHANGED <<init, inFit, mode, pc, k, clientVars, pipeVars, server, historyVars>>

(* RooAbsTestStatistic::initialize, initMPMode: once, for every client the *)
(* parameters are saved (initVars) and its process is forked.              *)
Initialized ==
  /\ init' = TRUE
  /\ server' = IF init THEN server ELSE [i \in Clients |-> Forked(params, mode)]
  /\ saved' = IF init THEN saved ELSE [i \in Clients |-> params]

(* RooAbsTestStatistic::enableOffsetting, RooRealMPFE::enableOffsetting:   *)
(* not flushed, and the master stays as clean as it was.                   *)
EnableOffsetting(flag) ==
  /\ Idle /\ ~inFit /\ flag # asked.doOffset /\ Len(buffer[N]) < MaxBuffered
  /\ Initialized
  /\ buffer' = [i \in Clients |-> Append(buffer[i], [type |-> "EnableOffset", flag |-> flag])]
  /\ asked' = [asked EXCEPT !.doOffset = flag]
  /\ silent' = TRUE
  /\ UNCHANGED <<params, dirty, inFit, mode, pc, k, part, reported, forced, changed,
                 remote, pipe, reply>>

(* RooNLLVar::applyWeightSquared, RooRealMPFE::applyNLLWeightSquared.      *)
ApplyWeightSquared(flag) ==
  /\ Idle /\ ~inFit /\ init /\ flag # asked.squared /\ Len(buffer[N]) < MaxBuffered
  /\ buffer' = [i \in Clients |-> Append(buffer[i], [type |-> "ApplyNLLW2", flag |-> flag])]
  /\ asked' = [asked EXCEPT !.squared = flag]
  /\ silent' = TRUE
  /\ UNCHANGED <<programVars, pc, k, clientVars, pipe, reply, server>>

(* RooMinimizer: Synchronize makes the master dirty, and errors are        *)
(* collected or counted (makeEvalErrorContext) until it is done.           *)
BeginFit(m) ==
  /\ Idle /\ ~inFit
  /\ inFit' = TRUE /\ mode' = m
  /\ dirty' = TRUE
  /\ UNCHANGED <<params, init, pc, k, clientVars, pipeVars, server, historyVars>>

EndFit ==
  /\ Idle /\ inFit
  /\ inFit' = FALSE /\ mode' = "PrintErrors"
  /\ UNCHANGED <<params, dirty, init, pc, k, clientVars, pipeVars, server, historyVars>>

(* RooAbsReal::getValV of the master, called by the program with offsets   *)
(* hidden: a clean master returns the value it has.                        *)
GetVal ==
  /\ Idle /\ ~inFit
  /\ reported' = {}
  /\ pc' = IF dirty THEN "calculate" ELSE "return"
  /\ k' = 1
  /\ UNCHANGED <<programVars, part, saved, forced, changed, remote, pipeVars,
                 server, historyVars>>

(* RooMinimizerFcn::operator(): with new parameters and offsets shown.     *)
Evaluate(new) ==
  /\ Idle /\ inFit
  /\ Set(new)
  /\ reported' = {}
  /\ pc' = IF dirty' THEN "calculate" ELSE "return"
  /\ k' = 1
  /\ UNCHANGED <<init, inFit, mode, part, saved, forced, changed, remote, pipeVars,
                 server, historyVars>>

Initialize ==
  /\ pc = "calculate" /\ ~init
  /\ Initialized
  /\ UNCHANGED <<params, dirty, inFit, mode, pc, k, part, reported, forced, changed,
                 remote, pipeVars, historyVars>>

---------------------------------------------------------------------------
(* Mutant of IsChanged: the other clients have no flags to follow.         *)
IsChangedOfMaster(i, j) == forced[i] \/ (i = 1 /\ params[j] # saved[1][j])

(* Only the update master, the first client, compares.                     *)
IsChanged(i, j) ==
  \/ forced[i]
  \/ IF i = 1 THEN params[j] # saved[i][j] ELSE changed[j]

(* Mutant of NextClient: the loop over the clients takes one too many.     *)
NextClientPast == IF k > N THEN 1 ELSE k + 1

NextClient == IF k = N THEN 1 ELSE k + 1

(* Mutant of Sent: the request to calculate waits for the next flush.      *)
SentLater(i, msgs) ==
  /\ pipe' = [pipe EXCEPT ![i] = @ \o buffer[i]]
  /\ buffer' = [buffer EXCEPT ![i] = msgs]

(* A message that is flushed takes those that wait with it.                *)
Sent(i, msgs) ==
  /\ pipe' = [pipe EXCEPT ![i] = @ \o buffer[i] \o msgs]
  /\ buffer' = [buffer EXCEPT ![i] = <<>>]

(* The loop over the parameters: what is sent when the first j are seen.   *)
Sends(i) ==
  LET sends[j \in 0..NPar] ==
        IF j = 0 THEN <<>>
        ELSE IF IsChanged(i, j)
             THEN Append(sends[j - 1], [type |-> "SendReal", idx |-> j, val |-> params[j]])
             ELSE sends[j - 1]
  IN  sends

(* RooRealMPFE::calculate. *)
Calculate ==
  /\ pc = "calculate" /\ init
  /\ LET calc == IF inFit THEN "CalculateNoOffset" ELSE "Calculate"
     IN  Sent(k, Sends(k)[NPar] \o << [type |-> calc], [type |-> "Retrieve"] >>)
  /\ changed' = IF k = 1 THEN [j \in 1..NPar |-> params[j] # saved[1][j]] ELSE changed
  /\ saved' = [saved EXCEPT ![k] = [j \in 1..NPar |-> IF IsChanged(k, j) THEN params[j] ELSE @[j]]]
  /\ forced' = [forced EXCEPT ![k] = FALSE]
  /\ pc' = IF k = N THEN "get" ELSE pc
  /\ k' = NextClient
  /\ UNCHANGED <<programVars, part, reported, remote, reply, server, historyVars>>

(* RooRealMPFE::evaluate: the server learns of a new logging mode now.     *)
SendMode ==
  /\ pc = "get" /\ mode # remote[k]
  /\ Sent(k, << [type |-> "LogEvalError", mode |-> mode] >>)
  /\ remote' = [remote EXCEPT ![k] = mode]
  /\ UNCHANGED <<programVars, pc, k, part, reported, saved, forced, changed, reply,
                 server, historyVars>>

(* The answer, with the errors; after the last one the master is clean.    *)
Receive ==
  /\ pc = "get" /\ mode = remote[k] /\ reply[k] # <<>>
  /\ LET msg == Head(reply[k])
     IN  /\ part' = [part EXCEPT ![k] = msg.value]
         /\ reported' = IF msg.errors > 0 THEN reported \cup {k} ELSE reported
  /\ reply' = [reply EXCEPT ![k] = Tail(@)]
  /\ pc' = IF k = N THEN "return" ELSE pc
  /\ k' = NextClient
  /\ dirty' = IF k = N THEN FALSE ELSE dirty
  /\ silent' = IF k = N THEN FALSE ELSE silent
  /\ UNCHANGED <<params, init, inFit, mode, saved, forced, changed, remote, buffer, pipe,
                 server, asked>>

Return ==
  /\ pc = "return"
  /\ pc' = "idle"
  /\ UNCHANGED <<programVars, k, clientVars, pipeVars, server, historyVars>>

---------------------------------------------------------------------------
(* ~RooAbsTestStatistic: the RooRealMPFEs are deleted one after another.   *)
Delete ==
  /\ Idle /\ ~inFit
  /\ pc' = IF init THEN "standby" ELSE "deleted"
  /\ k' = 1
  /\ UNCHANGED <<programVars, clientVars, pipeVars, server, historyVars>>

(* RooRealMPFE::standby: Terminate is sent; the handshake and the end of   *)
(* the process are waited for.                                             *)
Standby ==
  /\ pc = "standby"
  /\ Sent(k, << [type |-> "Terminate"] >>)
  /\ pc' = "handshake"
  /\ UNCHANGED <<programVars, k, clientVars, reply, server, historyVars>>

Handshake ==
  /\ pc = "handshake" /\ reply[k] # <<>>
  /\ Head(reply[k]).type = "Terminate" /\ ~server[k].alive
  /\ reply' = [reply EXCEPT ![k] = Tail(@)]
  /\ pc' = IF k = N THEN "deleted" ELSE "standby"
  /\ k' = NextClient
  /\ UNCHANGED <<programVars, clientVars, buffer, pipe, server, historyVars>>

---------------------------------------------------------------------------
(* A server process: RooRealMPFE::serverLoop.                              *)
Served(i, type) ==
  /\ server[i].alive /\ pipe[i] # <<>> /\ Head(pipe[i]).type = type
  /\ pipe' = [pipe EXCEPT ![i] = Tail(@)]
  /\ UNCHANGED <<programVars, pc, k, clientVars, buffer, historyVars>>

ServeReal(i) ==
  /\ Served(i, "SendReal")
  /\ LET msg == Head(pipe[i])
     IN  server' = [server EXCEPT ![i].vals[msg.idx] = msg.val,
                                  ![i].dirty = @ \/ server[i].vals[msg.idx] # msg.val]
  /\ UNCHANGED reply

(* RooNLLVar::evaluatePartition: the first value that is not 0 becomes the *)
(* offset.                                                                 *)
EvaluatePartition(i, s) ==
  LET here == [at |-> s.vals, squared |-> s.squared]
      off == IF s.doOffset /\ s.offset = {} /\ ~Zero(i, here) THEN {here} ELSE s.offset
  IN  [s EXCEPT !.offset = off,
                !.cached = Part(s.vals, s.squared, IF s.doOffset THEN off ELSE {}),
                !.dirty = FALSE,
                !.errors = IF Bad(i, s.vals) /\ s.mode # "PrintErrors" THEN @ + 1 ELSE @]

(* The value of the statistic with offset() added, if offsets are hidden.  *)
Hidden(s) ==
  [s.cached EXCEPT !.minus = (@ \ s.offset) \cup (s.offset \ @)]

ServeCalculate(i) ==
  \E type \in {"Calculate", "CalculateNoOffset"} :
    /\ Served(i, type)
    /\ LET s == IF server[i].dirty THEN EvaluatePartition(i, server[i]) ELSE server[i]
           value == IF type = "Calculate" THEN Hidden(s) ELSE s.cached
       IN  server' = [server EXCEPT ![i] = [s EXCEPT !.value = value]]
    /\ UNCHANGED reply

(* Errors that were only counted have no entry that would be sent.         *)
ErrorsSent(s) == IF s.mode = "CollectErrors" THEN s.errors ELSE 0

(* Mutant of ErrorsLeft: the error log is not cleared.                     *)
ErrorsKept(s) == IF s.errors > 1 THEN 1 ELSE s.errors

(* clearEvalErrorLog. *)
ErrorsLeft(s) == 0

ServeRetrieve(i) ==
  /\ Served(i, "Retrieve")
  /\ reply' = [reply EXCEPT ![i] = Append(@,
        [type |-> "ReturnValue", value |-> server[i].value, errors |-> ErrorsSent(server[i])])]
  /\ server' = [server EXCEPT ![i].errors = ErrorsLeft(server[i])]

(* RooAbsTestStatistic::enableOffsetting of a slave.                       *)
ServeEnableOffset(i) ==
  /\ Served(i, "EnableOffset")
  /\ LET flag == Head(pipe[i]).flag
     IN  server' = [server EXCEPT ![i].doOffset = flag,
                                  ![i].offset = IF flag THEN @ ELSE {},
                                  ![i].dirty = TRUE]
  /\ UNCHANGED reply

(* Mutant of WeightSquared: the offset of the other weights stays.         *)
WeightSquaredAlone(s, flag) == [s EXCEPT !.squared = flag, !.dirty = TRUE]

(* RooNLLVar::applyWeightSquared of a slave: each kind has its own offset. *)
WeightSquared(s, flag) ==
  [s EXCEPT !.squared = flag, !.dirty = TRUE,
            !.offset = IF flag = s.squared THEN @ ELSE s.otherOffset,
            !.otherOffset = IF flag = s.squared THEN @ ELSE s.offset]

ServeApplyNLLW2(i) ==
  /\ Served(i, "ApplyNLLW2")
  /\ server' = [server EXCEPT ![i] = WeightSquared(@, Head(pipe[i]).flag)]
  /\ UNCHANGED reply

ServeLogEvalError(i) ==
  /\ Served(i, "LogEvalError")
  /\ server' = [server EXCEPT ![i].mode = Head(pipe[i]).mode]
  /\ UNCHANGED reply

ServeTerminate(i) ==
  /\ Served(i, "Terminate")
  /\ reply' = [reply EXCEPT ![i] = Append(@, [type |-> "Terminate"])]
  /\ server' = [server EXCEPT ![i].alive = FALSE]

Server(i) ==
  \/ ServeReal(i) \/ ServeCalculate(i) \/ ServeRetrieve(i)
  \/ ServeEnableOffset(i) \/ ServeApplyNLLW2(i) \/ ServeLogEvalError(i)
  \/ ServeTerminate(i)

(* What the program has begun it carries on with.                          *)
Working ==
  Initialize \/ Calculate \/ SendMode \/ Receive \/ Return \/ Standby \/ Handshake

Next ==
  \/ \E new \in Points : SetVal(new) \/ Evaluate(new)
  \/ \E flag \in BOOLEAN : EnableOffsetting(flag) \/ ApplyWeightSquared(flag)
  \/ \E m \in FitModes : BeginFit(m)
  \/ EndFit \/ GetVal \/ Delete
  \/ Working
  \/ \E i \in Clients : Server(i)

Spec ==
  /\ Init /\ [][Next]_vars
  /\ WF_vars(Working)
  /\ \A i \in Clients : WF_vars(Server(i))

---------------------------------------------------------------------------
TypeOK ==
  /\ params \in Points
  /\ dirty \in BOOLEAN /\ init \in BOOLEAN /\ inFit \in BOOLEAN
  /\ mode \in Modes
  /\ pc \in {"idle", "calculate", "get", "return", "standby", "handshake", "deleted"}
  /\ k \in Clients
  /\ reported \subseteq Clients
  /\ saved \in [Clients -> Points]
  /\ forced \in [Clients -> BOOLEAN]
  /\ changed \in [1..NPar -> BOOLEAN]
  /\ remote \in [Clients -> Modes]
  /\ \A i \in Clients :
       /\ server[i].vals \in Points /\ server[i].mode \in Modes
       /\ server[i].errors \in Nat
       /\ Len(reply[i]) <= 1

(* Every term of the sum a program or a fit gets is the value of its       *)
(* partition for the present parameters and kind of weights, although only *)
(* one client compares them and switches wait for a flush; unless a clean  *)
(* master did not ask the servers after a switch (RooRealMPFE::calculate,  *)
(* RooNLLVar::applyWeightSquared).                                         *)
SumIsCurrent ==
  (pc = "return" /\ ~silent) =>
     \A i \in Clients : part[i].at = params /\ part[i].squared = asked.squared

(* What was subtracted for partition i fits to what was for partition j: it *)
(* is the same, or the other was worth nothing where one took its offset.  *)
Agree(i, j, minus, other) ==
  \A o \in minus : o \in other \/ Zero(j, o) \/ \E q \in other : Zero(i, q)

(* In a fit with offsets every partition subtracts its own, of the kind of *)
(* weights that is used, and they were computed at one point but for those *)
(* of partitions that were worth nothing there; one that has none is worth *)
(* nothing now; without offsets there is none (RooNLLVar.cxx:243-255).     *)
OffsetsTogether ==
  (pc = "return" /\ inFit) =>
     \A i \in Clients :
        /\ \A j \in Clients : Agree(i, j, part[i].minus, part[j].minus)
        /\ \A o \in part[i].minus : asked.doOffset /\ o.squared = asked.squared
        /\ part[i].minus = {} /\ asked.doOffset =>
             Zero(i, [at |-> params, squared |-> asked.squared])

(* An error that is reported comes from the evaluation that is reported    *)
(* (RooRealMPFE::serverLoop, clearEvalErrorLog).                           *)
ErrorsOfThisPoint ==
  pc = "return" => \A i \in reported : Bad(i, params)

(* An evaluation that was begun returns, whatever the servers do first,    *)
(* and a statistic that is deleted leaves no server process behind         *)
(* (RooAbsTestStatistic::evaluate, RooRealMPFE::standby).                  *)
CallsEnd ==
  /\ pc \in {"calculate", "get"} ~> Idle
  /\ pc = "standby" ~> (pc = "deleted" /\ \A i \in Clients : ~server[i].alive)
=============================================================================
