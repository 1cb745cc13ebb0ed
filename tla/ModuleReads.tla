----------------------------- MODULE ModuleReads -----------------------------
(***************************************************************************)
(* What Reader.ModuleEEPROM promises its callers, with nothing said of     *)
(* mutexes, clients, probes or fallbacks: a call names an interface and is *)
(* answered once, by an error or by an image every byte of which was read, *)
(* while the call was under way, from a module that sat in that interface. *)
(* Calls may overlap, and modules come and go under them.                  *)
(***************************************************************************)
EXTENDS ModuleMemory

CONSTANTS Callers, Interfaces, NoInterface

VARIABLES
  plugged,  \* plugged[i]: the module in interface i, or NoModule
  calling,  \* calling[c]: the interface caller c is asking about
  window,   \* window[c]: what sat there since that call began
  answer    \* answer[c]: what the last call of c returned

vars == <<plugged, calling, window, answer>>

Answers == [ok : BOOLEAN, data : Image]
NoAnswer == [ok |-> FALSE, data |-> Blank]

Init ==
  /\ plugged \in [Interfaces -> Modules \cup {NoModule}]
  /\ calling = [c \in Callers |-> NoInterface]
  /\ window = [c \in Callers |-> {}]
  /\ answer = [c \in Callers |-> NoAnswer]

Swap(i, m) ==
  /\ plugged' = [plugged EXCEPT ![i] = m]
  /\ window' = [c \in Callers |->
                  IF calling[c] = i THEN window[c] \cup {m} ELSE window[c]]
  /\ UNCHANGED <<calling, answer>>

Call(c, i) ==
  /\ calling[c] = NoInterface
  /\ calling' = [calling EXCEPT ![c] = i]
  /\ window' = [window EXCEPT ![c] = {plugged[i]}]
  /\ answer' = [answer EXCEPT ![c] = NoAnswer]
  /\ UNCHANGED plugged

\* Every byte of the image is from the window, a zero fill or past the end.
ReadFrom(data, modules) ==
  /\ \A s \in Slots : data[s] \in modules \cup {Zero, Missing}
  /\ IsPrefix(data)

Return(c) ==
  /\ calling[c] # NoInterface
  /\ calling' = [calling EXCEPT ![c] = NoInterface]
  /\ answer' = [answer EXCEPT ![c] = answer'[c]]
  /\ answer'[c] \in Answers
  /\ \/ answer'[c] = NoAnswer
     \/ answer'[c].ok /\ ReadFrom(answer'[c].data, window[c] \ {NoModule})
  /\ UNCHANGED <<plugged, window>>

Next ==
  \/ \E i \in Interfaces, m \in Modules \cup {NoModule} : Swap(i, m)
  \/ \E c \in Callers :
        \/ \E i \in Interfaces : Call(c, i)
        \/ Return(c)

Spec == Init /\ [][Next]_vars
=============================================================================
