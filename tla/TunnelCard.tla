----------------------------- MODULE TunnelCard -----------------------------
(***************************************************************************)
(* A client's tunnel, from the card it is set up on (frontend:             *)
(* ClientTunnelCard, tunnelForm) to the row it is stored in (server:       *)
(* TunnelController, ClientTunnelRepository) and the connection runs share *)
(* over it.                                                                *)
(*                                                                         *)
(* One client, one card, and other operators whose requests are answered   *)
(* at once.  A host stands for its address, port and user, a host key for  *)
(* its fingerprint.  A request arrives when it is sent.  What becomes of a *)
(* connection whose entry is gone is TunnelService's.                      *)
(***************************************************************************)
EXTENDS Naturals, Sequences

CONSTANTS
  Hosts,
  Plain, Locked, \* a generated key, and one brought along that has a passphrase
  MaxEvents      \* bound: what the hosts, the runs and other operators do

VARIABLES
  exists,    \* whether the client does
  row,       \* <<>> or <<its row in client_tunnels>>
  proved,    \* whether the credentials last created had been seen to work
  entry,     \* <<>> or <<the connection runs share, with the row it was opened with>>
  installed, \* host -> how often it got a new host key
  open,      \* whether the card is shown
  info,      \* what the card was told of the row
  draft, base,
  feedback,
  call,      \* <<>> or <<the request the card waits for>>
  making,    \* whether a key pair is being made
  shown,     \* host keys tests have reported
  events

serverVars == <<exists, row, proved, entry>>
formVars == <<open, info, draft, base, feedback, making>>
cardVars == <<formVars, call>>
tunnelVars == <<serverVars, installed, cardVars, shown, events>>

Nothing == "nothing"
NoKey == <<Nothing, 0>>
KeyModes == {"keep", "generate", "manual"}
Passphrases == {Nothing, "passphrase"}
Silent == [says |-> Nothing, of |-> Nothing, unknown |-> NoKey]

View(stored) == IF stored = <<>> THEN <<>>
                ELSE <<[host |-> stored[1].host, pin |-> stored[1].pin]>>
DraftFrom(told) == [host |-> IF told = <<>> THEN Nothing ELSE told[1].host,
                    mode |-> IF told = <<>> THEN "generate" ELSE "keep",
                    key |-> Nothing, pass |-> Nothing]

Init ==
  /\ exists = TRUE /\ row = <<>> /\ proved = FALSE /\ entry = <<>>
  /\ installed = [h \in Hosts |-> 0]
  /\ open = FALSE /\ info = <<>> /\ draft = DraftFrom(<<>>) /\ base = Nothing
  /\ feedback = Silent /\ call = <<>> /\ making = FALSE
  /\ shown = {} /\ events = 0

Happens == events < MaxEvents /\ events' = events + 1

-----------------------------------------------------------------------------
(***************************************************************************)
(* A test: the host presents its key, which has to be the expected one if  *)
(* there is one, and then takes the credentials and the forward or not.    *)
(***************************************************************************)
Presented(h) == <<h, installed[h]>>
Usable(c) == c.key = Locked => c.pass # Nothing
Outcomes == {"unreachable", "refused", "accepted"}

TestConnection(c, outcome) ==
  LET seen == IF outcome = "unreachable" THEN NoKey ELSE Presented(c.host)
  IN [hostKey |-> seen,
      ok |-> outcome = "accepted" /\ Usable(c) /\ (c.pin = NoKey \/ c.pin = seen)]

Note(result) == shown' = shown \cup ({result.hostKey} \ {NoKey})

\* Mutant: a connection that is not up yet is left alone.
CloseUp == entry' = IF entry # <<>> /\ entry[1].up THEN <<>> ELSE entry
CloseClient == entry' = <<>>

\* Only what the changes name is changed.
Changed(r, changes) == [f \in DOMAIN r |-> IF f \in DOMAIN changes THEN changes[f] ELSE r[f]]

Update(changes) ==
  /\ row' = <<Changed(row[1], changes)>>
  /\ CloseClient /\ UNCHANGED <<exists, proved>>

Insert(c, result) ==
  /\ row' = <<c>> /\ proved' = (result.ok /\ result.hostKey = c.pin)
  /\ UNCHANGED <<exists, entry>>

Remove == row' = <<>> /\ CloseClient /\ UNCHANGED <<exists, proved>>

-----------------------------------------------------------------------------
(***************************************************************************)
(* The form.  Its key fields can be used while a request is under way.     *)
(***************************************************************************)
isNew == info = <<>>
CarriesNewKey(d) == d.mode # "keep" /\ d.key # Nothing
PassphraseOf(d) == IF d.mode = "manual" THEN d.pass ELSE Nothing
NewTunnelInput(d) == [host |-> d.host, key |-> d.key, pass |-> PassphraseOf(d), pin |-> NoKey]
UpdateInput(d) == IF CarriesNewKey(d)
                  THEN [host |-> d.host, key |-> d.key, pass |-> PassphraseOf(d)]
                  ELSE [host |-> d.host]
IsValid == draft.host # Nothing /\ (isNew => draft.key # Nothing)
IsDirty == draft.host # base \/ CarriesNewKey(draft)
CanSave == open /\ IsDirty /\ IsValid /\ call = <<>>

Touched == call' = IF call = <<>> \/ call[1].op = "test" THEN call ELSE <<[call[1] EXCEPT !.touched = TRUE]>>

TypeHost(h) ==
  /\ open /\ call = <<>> /\ draft.host # h
  /\ draft' = [draft EXCEPT !.host = h] /\ feedback' = Silent
  /\ UNCHANGED <<serverVars, installed, open, info, base, call, making, shown, events>>

ChooseKey(mode) ==
  /\ open /\ draft.mode # mode /\ (mode = "keep" => ~isNew)
  /\ draft' = [draft EXCEPT !.mode = mode, !.key = Nothing, !.pass = Nothing]
  /\ feedback' = Silent /\ Touched
  /\ UNCHANGED <<serverVars, installed, open, info, base, making, shown, events>>

TypeKey(pass) ==
  /\ open /\ draft.mode = "manual" /\ <<Locked, pass>> # <<draft.key, draft.pass>>
  /\ draft' = [draft EXCEPT !.key = Locked, !.pass = pass] /\ Touched
  /\ UNCHANGED <<serverVars, installed, open, info, base, feedback, making, shown, events>>

Generate ==
  /\ open /\ draft.mode = "generate" /\ ~making
  /\ making' = TRUE
  /\ UNCHANGED <<serverVars, installed, open, info, draft, base, feedback, call, shown, events>>

Generated ==
  /\ open /\ making /\ making' = FALSE
  /\ draft' = [draft EXCEPT !.key = Plain, !.pass = Nothing] /\ Touched
  /\ UNCHANGED <<serverVars, installed, open, info, base, feedback, shown, events>>

Open ==
  /\ ~open /\ exists
  /\ open' = TRUE /\ info' = View(row) /\ draft' = DraftFrom(info') /\ base' = draft'.host
  /\ feedback' = Silent
  /\ UNCHANGED <<serverVars, installed, call, making, shown, events>>

Close ==
  /\ open /\ call = <<>>
  /\ open' = FALSE /\ info' = <<>> /\ draft' = DraftFrom(<<>>) /\ base' = Nothing
  /\ feedback' = Silent /\ making' = FALSE
  /\ UNCHANGED <<serverVars, installed, call, shown, events>>

\* The cache is read again after a reconnect: the form keeps what is typed.
Refetch ==
  /\ open /\ info # View(row) /\ info' = View(row)
  /\ UNCHANGED <<serverVars, installed, open, draft, base, feedback, call, making, shown, events>>

-----------------------------------------------------------------------------
PinTold == IF isNew THEN NoKey ELSE info[1].pin
Ask(op, c) == call' = <<[op |-> op, creds |-> c, told |-> IF op = "test" THEN PinTold ELSE NoKey,
                         touched |-> FALSE]>>
Says(what, h) == feedback' = [Silent EXCEPT !.says = what, !.of = h]
Fails == Says("failed", Nothing)

\* A change that was taken is entered into what the card was told.
InfoAfter(changes) == info' = IF isNew THEN info ELSE <<Changed(info[1], changes)>>

\* Stored, the key is the one to keep: what was typed since is not.
Rebase ==
  /\ base' = call[1].creds.host
  /\ draft' = IF call[1].touched THEN draft
              ELSE [draft EXCEPT !.mode = "keep", !.key = Nothing, !.pass = Nothing]

\* The private key is write-only: the stored one is tested where it is stored.
Tested == IF CarriesNewKey(draft)
          THEN [NewTunnelInput(draft) EXCEPT !.pin = PinTold]
          ELSE [row[1] EXCEPT !.host = draft.host]

HandleTest ==
  /\ open /\ call = <<>> /\ IsValid
  /\ \/ /\ CarriesNewKey(draft) \/ row # <<>>
        /\ Ask("test", Tested) /\ feedback' = Silent
     \/ /\ ~CarriesNewKey(draft) /\ row = <<>>
        /\ Fails /\ UNCHANGED call
  /\ UNCHANGED <<serverVars, installed, open, info, draft, base, making, shown, events>>

EndTest(outcome) ==
  /\ call # <<>> /\ call[1].op = "test" /\ call' = <<>>
  /\ LET result == TestConnection(call[1].creds, outcome)
         pin == call[1].told
     IN /\ Note(result)
        /\ feedback' = IF result.ok
             THEN [Silent EXCEPT !.says = "works", !.of = call[1].creds.host]
             ELSE [Silent EXCEPT !.says = "failed",
                                 !.unknown = IF NoKey \in {pin, result.hostKey} \/ result.hostKey = pin
                                             THEN NoKey ELSE result.hostKey]
  /\ UNCHANGED <<serverVars, installed, open, info, draft, base, making, events>>

HandleCreate ==
  /\ CanSave /\ isNew
  /\ Ask("measure", NewTunnelInput(draft)) /\ feedback' = Silent
  /\ UNCHANGED <<serverVars, installed, open, info, draft, base, making, shown, events>>

\* The host key the test reports goes into the request, where it is tested again.
EndMeasure(outcome) ==
  /\ call # <<>> /\ call[1].op = "measure"
  /\ LET result == TestConnection(call[1].creds, outcome)
     IN /\ Note(result)
        /\ IF result.ok /\ exists /\ row = <<>>
           THEN call' = <<[call[1] EXCEPT !.op = "create", !.creds.pin = result.hostKey]>>
                /\ UNCHANGED feedback
           ELSE call' = <<>> /\ Fails
  /\ UNCHANGED <<serverVars, installed, open, info, draft, base, making, events>>

\* Meanwhile the client may be gone, or have a tunnel: the row is refused.
EndCreate(outcome) ==
  /\ call # <<>> /\ call[1].op = "create" /\ call' = <<>>
  /\ LET result == TestConnection(call[1].creds, outcome)
     IN /\ Note(result)
        /\ IF result.ok /\ exists /\ row = <<>>
           THEN /\ Insert(call[1].creds, result) /\ info' = View(row') /\ Rebase
                /\ Says("set up", call[1].creds.host)
           ELSE Fails /\ UNCHANGED <<serverVars, info, draft, base>>
  /\ UNCHANGED <<installed, open, making, events>>

HandleSave ==
  /\ CanSave /\ ~isNew
  /\ Ask("save", UpdateInput(draft)) /\ feedback' = Silent
  /\ UNCHANGED <<serverVars, installed, open, info, draft, base, making, shown, events>>

EndSave ==
  /\ call # <<>> /\ call[1].op = "save" /\ call' = <<>>
  /\ IF row # <<>>
     THEN /\ Update(call[1].creds) /\ Rebase /\ Says("saved", call[1].creds.host)
          /\ InfoAfter([host |-> call[1].creds.host])
     ELSE Fails /\ UNCHANGED <<serverVars, info, draft, base>>
  /\ UNCHANGED <<installed, open, making, shown, events>>

HandleTrustHostKey ==
  /\ open /\ call = <<>> /\ feedback.unknown # NoKey
  /\ IF row # <<>>
     THEN /\ Update([pin |-> feedback.unknown]) /\ Says("pinned", Nothing)
          /\ InfoAfter([pin |-> feedback.unknown])
     ELSE /\ feedback' = [feedback EXCEPT !.says = "failed"] /\ UNCHANGED <<serverVars, info>>
  /\ UNCHANGED <<installed, open, draft, base, call, making, shown, events>>

RemoveTunnel ==
  /\ open /\ call = <<>> /\ ~isNew
  /\ IF row # <<>>
     THEN /\ Remove /\ Says("removed", Nothing)
          /\ info' = <<>> /\ draft' = DraftFrom(<<>>) /\ base' = Nothing
     ELSE feedback' = Silent /\ UNCHANGED <<serverVars, info, draft, base>>
  /\ UNCHANGED <<installed, open, call, making, shown, events>>

-----------------------------------------------------------------------------
(***************************************************************************)
(* Everyone else.                                                          *)
(***************************************************************************)
OtherCreates(h) ==
  /\ exists /\ row = <<>> /\ Happens
  /\ LET c == [host |-> h, key |-> Plain, pass |-> Nothing, pin |-> Presented(h)]
         result == TestConnection(c, "accepted")
     IN Insert(c, result) /\ Note(result)
  /\ UNCHANGED <<installed, cardVars>>

OtherUpdates(h) ==
  /\ row # <<>> /\ row[1].host # h /\ Happens
  /\ Update([host |-> h])
  /\ UNCHANGED <<installed, cardVars, shown>>

OtherRemoves ==
  /\ row # <<>> /\ Happens /\ Remove
  /\ UNCHANGED <<installed, cardVars, shown>>

DeleteClient ==
  /\ exists /\ Happens
  /\ exists' = FALSE /\ row' = <<>> /\ CloseClient
  /\ UNCHANGED <<proved, installed, cardVars, shown>>

Reinstall(h) ==
  /\ Happens /\ installed' = [installed EXCEPT ![h] = @ + 1]
  /\ UNCHANGED <<serverVars, cardVars, shown>>

\* A run asks for a lease, with the credentials it finds.
Acquire ==
  /\ row # <<>> /\ entry = <<>> /\ Happens
  /\ entry' = <<[up |-> FALSE, creds |-> row[1]]>>
  /\ UNCHANGED <<exists, row, proved, installed, cardVars, shown>>

OpenSsh(outcome) ==
  /\ entry # <<>> /\ ~entry[1].up
  /\ entry' = IF TestConnection(entry[1].creds, outcome).ok THEN <<[entry[1] EXCEPT !.up = TRUE]>>
              ELSE <<>>
  /\ UNCHANGED <<exists, row, proved, installed, cardVars, shown, events>>

Next ==
  \/ \E h \in Hosts : TypeHost(h) \/ OtherCreates(h) \/ OtherUpdates(h) \/ Reinstall(h)
  \/ \E mode \in KeyModes : ChooseKey(mode)
  \/ \E pass \in Passphrases : TypeKey(pass)
  \/ Generate \/ Generated \/ Open \/ Close \/ Refetch
  \/ HandleTest \/ HandleCreate \/ HandleSave \/ EndSave \/ HandleTrustHostKey \/ RemoveTunnel
  \/ \E outcome \in Outcomes :
       EndTest(outcome) \/ EndMeasure(outcome) \/ EndCreate(outcome) \/ OpenSsh(outcome)
  \/ OtherRemoves \/ DeleteClient \/ Acquire

-----------------------------------------------------------------------------
\* A tunnel is never stored in a state that was never seen to work
\* (TunnelController.create), whatever happened during its two tests.
CreatedWorks == row # <<>> => proved

\* Every host key that is pinned was reported to someone by a test.
PinWasShown == row # <<>> => row[1].pin \in shown

\* New credentials are not used by an existing connection, nor by one that is
\* still being opened (TunnelController.update).
ConnectionIsCurrent == entry # <<>> => row = <<entry[1].creds>>

\* What the card says of a host, and the host key it offers to trust, are about
\* the host it shows.
CardSaysTrue ==
  /\ feedback.of # Nothing => feedback.of = draft.host
  /\ feedback.unknown # NoKey => feedback.unknown[1] = draft.host /\ feedback.unknown \in shown

TunnelHolds == CreatedWorks /\ PinWasShown /\ ConnectionIsCurrent /\ CardSaysTrue
=============================================================================
