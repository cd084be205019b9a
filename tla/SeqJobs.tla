-------------------------------- MODULE SeqJobs --------------------------------
(***************************************************************************)
(* Proj1/Ex1 on one .jobs file: ems_process executes the lines one after   *)
(* the other, and ignores the ones the parser rejects.                     *)
(***************************************************************************)
EXTENDS JobStore

CONSTANTS
  Inputs,       \* the .jobs files, sequences of lines
  NULL          \* event_list before ems_init and after ems_terminate

ASSUME InputsAssumption == Inputs \subseteq Seq(Lines)

VARIABLES
  input,        \* the lines of the file
  line,         \* how many of them were executed
  event_list,
  out           \* what was written to the .out file, with the line that wrote it

vars == <<input, line, event_list, out>>

Init ==
  /\ input \in Inputs
  /\ line = 0
  /\ event_list = <<>>
  /\ out = <<>>

Current == input[line + 1]
Reads(op) ==
  /\ event_list # NULL
  /\ line < Len(input)
  /\ Current.op = op
  /\ line' = line + 1
  /\ UNCHANGED input

Write(chunks) == out' = out \o chunks

ems_create ==
  /\ Reads("create") /\ Current.ok
  /\ event_list' =
       IF get_event(event_list, Current.event) # 0 THEN event_list
       ELSE Append(event_list, NewEvent(Current.event, Current.rows, Current.cols))
  /\ UNCHANGED out

ems_reserve ==
  /\ Reads("reserve") /\ Current.ok
  /\ LET p == get_event(event_list, Current.event)
     IN  event_list' = IF p = 0 THEN event_list
                       ELSE [event_list EXCEPT ![p] = Reserved(@, Current.seats)]
  /\ UNCHANGED out

ems_show ==
  /\ Reads("show") /\ Current.ok
  /\ LET p == get_event(event_list, Current.event)
     IN  Write(IF p = 0 THEN <<>>
               ELSE [i \in 1 .. event_list[p].rows |->
                       [line |-> line', row |-> Row(event_list[p], i)]])
  /\ UNCHANGED event_list

ems_list_events ==
  /\ Reads("list")
  /\ Write([p \in DOMAIN event_list |-> [line |-> line', id |-> event_list[p].id]])
  /\ UNCHANGED event_list

\* WAIT: the thread of the line is not parsed.
ems_wait ==
  /\ Reads("wait")
  /\ Write(IF Current.ok /\ Current.delay > 0 THEN <<[line |-> line', text |-> "Waiting"]>> ELSE <<>>)
  /\ UNCHANGED event_list

\* HELP, comments, empty lines, BARRIER; lines that do not parse.
Ignore ==
  /\ \/ Reads("skip") \/ Reads("barrier")
     \/ (Reads("create") \/ Reads("reserve") \/ Reads("show")) /\ ~ Current.ok
  /\ UNCHANGED <<event_list, out>>

\* EOC
ems_terminate ==
  /\ event_list # NULL /\ line = Len(input)
  /\ event_list' = NULL
  /\ UNCHANGED <<input, line, out>>

Finished == event_list = NULL /\ UNCHANGED vars

Next ==
  \/ ems_create \/ ems_reserve \/ ems_show \/ ems_list_events \/ ems_wait
  \/ Ignore \/ ems_terminate \/ Finished

Spec == Init /\ [][Next]_vars

-----------------------------------------------------------------------------
\* Every seat has a number no reservation of its event exceeds.
TypeOK ==
  /\ input \in Inputs /\ line \in 0 .. Len(input)
  /\ event_list # NULL =>
       \A p \in DOMAIN event_list : LET e == event_list[p]
         IN /\ DOMAIN e.data = Cells(e.rows, e.cols)
            /\ \A i \in DOMAIN e.data : e.data[i] \in 0 .. e.reservations

\* What a failed reservation took it gives back, duplicates and all: the
\* seats carry exactly the numbers 1 to reservations, and no identifier is
\* created twice.
ListConsistent ==
  /\ TypeOK
  /\ event_list # NULL =>
       /\ NoDuplicates(event_list)
       /\ \A p \in DOMAIN event_list : CountsItsReservations(event_list[p])

\* ems_reserve computes the reference on every event the program builds and
\* every list of seats of its input.
ReserveIsAllOrNothing ==
  event_list # NULL =>
    \A p \in DOMAIN event_list : \A k \in DOMAIN input :
      input[k].op = "reserve" /\ input[k].ok =>
        Reserved(event_list[p], input[k].seats)
          = AllOrNothing(event_list[p], input[k].seats)
=============================================================================
