------------------------------ MODULE ParamLink -----------------------------
(***************************************************************************)
(* The MAVLink parameter protocol, src/src/link/mavlink_param.c, over the  *)
(* parameters and their store: a list goes out a value every 100 ms, and   *)
(* reads and sets are answered in between.  A set is one call, which       *)
(* stores the parameters before it answers.                                *)
(*                                                                         *)
(* The station's table holds the value it last received of each parameter. *)
(* It forgets them when it asks for the list.                              *)
(***************************************************************************)
EXTENDS ParamStore

CONSTANT MaxRequests   \* bound on the station's requests

ASSUME LinkAssumption == MaxRequests \in Nat

Unknown == "unknown"   \* the station has not received the parameter
Nobody  == 0           \* no set waits for its answer

VARIABLES
  sending,     \* MavlinkParam: status = PARAM_SENDING
  send_index,  \* and send_index
  setting,     \* the parameter whose PARAM_SET is being handled
  table,       \* the station's
  stopped,     \* the list asked for last was given up half way
  unstored,    \* a restart did not find RAM's values in the store
  requests     \* requests so far

lvars   == <<sending, send_index, setting, table, stopped, unstored, requests>>
allvars == <<vars, lvars>>

LinkTypeOK ==
  /\ TypeOK
  /\ sending \in BOOLEAN /\ send_index \in 0 .. Params
  /\ sending => send_index < Params
  /\ setting \in 0 .. Params
  /\ setting # Nobody => pc \in {"erase", "fill", "program", "wait"}
  /\ table \in [1 .. Params -> Values \cup {Default, Junk, Unknown}]
  /\ stopped \in BOOLEAN /\ unstored \in BOOLEAN
  /\ requests \in 0 .. MaxRequests

EmptyTable == [i \in 1 .. Params |-> Unknown]
AllKnown   == \A i \in 1 .. Params : table[i] # Unknown

LinkInit ==
  /\ Init
  /\ sending = FALSE /\ send_index = 0 /\ setting = Nobody
  /\ table = EmptyTable /\ stopped = FALSE /\ unstored = FALSE
  /\ requests = 0

-----------------------------------------------------------------------------
Request == pc = "idle" /\ requests < MaxRequests /\ requests' = requests + 1

(* mavlink_param_send. *)
Send(i) == table' = [table EXCEPT ![i] = ram[i]]

(* PARAM_REQUEST_LIST. *)
RequestList ==
  /\ Request
  /\ sending' = TRUE /\ send_index' = 0
  /\ table' = EmptyTable /\ stopped' = FALSE /\ unstored' = FALSE
  /\ UNCHANGED vars /\ UNCHANGED setting

(* PARAM_REQUEST_READ of a parameter there is; it ends a list.             *)
RequestRead(i) ==
  /\ Request
  /\ Send(i)
  /\ sending' = FALSE /\ stopped' = (stopped \/ sending)
  /\ UNCHANGED vars /\ UNCHANGED <<send_index, setting, unstored>>

(* PARAM_SET of a parameter there is, up to mtd_sync_sector. *)
RequestSet(i, v) ==
  /\ Request
  /\ Set(i, v) /\ setting' = i
  /\ UNCHANGED <<sending, send_index, table, stopped, unstored>>

(* Bug: a set is not answered. *)
AnswersNothing == UNCHANGED table

(* What follows mtd_sync_sector's return: param_get_val and the answer. *)
Answers == IF setting = Nobody THEN UNCHANGED table ELSE Send(setting)

Returns == Wait /\ Answers /\ setting' = Nobody

(* A call that is not over, or has just begun. *)
Inside ==
  \/ /\ Boot \/ TryErase \/ Fill \/ TryProgram
     /\ UNCHANGED <<setting, table>>
  \/ Returns

StoreStep ==
  /\ Inside
  /\ unstored' = (unstored \/ (pc = "boot" /\ InProgress(flash)))
  /\ UNCHANGED <<sending, send_index, stopped, requests>>

(* Bug: the last parameter is left out. *)
ListRunOneShort ==
  /\ pc = "idle" /\ sending
  /\ Send(send_index + 1)
  /\ send_index' = send_index + 1
  /\ sending' = (send_index + 2 < Params)
  /\ UNCHANGED vars /\ UNCHANGED <<setting, stopped, unstored, requests>>

(* mavlink_param_run, when its 100 ms have passed. *)
ListRun ==
  /\ pc = "idle" /\ sending
  /\ Send(send_index + 1)
  /\ send_index' = send_index + 1
  /\ sending' = (send_index + 1 < Params)
  /\ UNCHANGED vars /\ UNCHANGED <<setting, stopped, unstored, requests>>

-----------------------------------------------------------------------------
(* The other steps of ParamStore leave the protocol alone. *)
OtherStep == (LogCommands \/ Finish) /\ UNCHANGED lvars

(* A restart takes the list and the answer with it. *)
RestartStep ==
  /\ Reset \/ PowerFails
  /\ sending' = FALSE /\ send_index' = 0 /\ setting' = Nobody
  /\ stopped' = (stopped \/ sending)
  /\ unstored' = (unstored \/ missed \/ pc \notin {"boot", "idle"})
  /\ UNCHANGED <<table, requests>>

LinkNext ==
  \/ RequestList
  \/ \E i \in 1 .. Params : RequestRead(i) \/ \E v \in Values : RequestSet(i, v)
  \/ StoreStep \/ ListRun \/ OtherStep \/ RestartStep

(* The main loop runs the link's task for ever; the rest as in ParamStore. *)
LinkSpec == LinkInit /\ [][LinkNext]_allvars
FairLink ==
  /\ LinkSpec
  /\ WF_allvars(StoreStep) /\ WF_allvars(ListRun)
  /\ WF_allvars(Finish /\ UNCHANGED lvars)
-----------------------------------------------------------------------------
(* Correctness.                                                            *)

(* What the station was told is what the vehicle flies with: while no call *)
(* is under way, a value in its table is RAM's, also after a restart,      *)
(* which loads the store.  The exceptions are those of StoreMatchesRam,    *)
(* and a restart in the middle of a store or on a chip at work.            *)
TableIsRam ==
  pc = "idle" /\ ~missed /\ ~unstored =>
    \A i \in 1 .. Params : table[i] \in {Unknown, ram[i]}

(* common.xml:2588, "After this request, all parameters are emitted":      *)
(* unless the list is given up for a read or a restart, however many sets  *)
(* and waits for the chip fall between two of its values.                  *)
ListAnswered == sending ~> AllKnown \/ stopped
=============================================================================
