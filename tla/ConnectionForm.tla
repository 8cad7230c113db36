---------------------------- MODULE ConnectionForm ----------------------------
(***************************************************************************)
(* The form of an application and its connection: opened anew or for       *)
(* editing, filled in, and submitted to the server, which stores a         *)
(* connection or updates the one it has.                                   *)
(***************************************************************************)
EXTENDS ConnectionFields

AllBlank == [f \in Fields |-> "blank"]
NoConnection == AllBlank

\* resetForm
ResetForm ==
  /\ formType' = "MicrosoftSqlServer" /\ formAuth' = "UserPassword"
  /\ formValue' = [AllBlank EXCEPT !["port"] = "plain"]

Init ==
  /\ formMode = "closed"
  /\ formType = "MicrosoftSqlServer" /\ formAuth = "UserPassword"
  /\ formValue = [AllBlank EXCEPT !["port"] = "plain"]
  /\ connection = NoConnection /\ storedType = "none" /\ storedAuth = "none"

Open == formMode \in {"new", "edit"}

OpenNew ==
  /\ formMode = "closed" /\ storedType = "none"
  /\ formMode' = "new"
  /\ ResetForm
  /\ UNCHANGED storedVars

\* The type comes back by its name; the table that names the types is asked
\* with that name, knows only numbers, and falls back.
getDataSourceTypeName(t) == "MicrosoftSqlServer"

\* The effect on editingApp fills the form with what was returned.
OpenEdit ==
  /\ formMode = "closed" /\ storedType # "none"
  /\ formMode' = "edit"
  /\ formType' = getDataSourceTypeName(storedType)
  /\ formAuth' = storedAuth
  /\ formValue' = [f \in Fields |->
                     IF f \in Returned THEN connection[f] ELSE "blank"]
  /\ UNCHANGED storedVars

\* By the cross or the Escape key.
Close ==
  /\ formMode # "closed"
  /\ formMode' = "closed"
  /\ ResetForm
  /\ UNCHANGED storedVars

\* Another data source resets the authentication and the port.
ChooseType(t) ==
  /\ Open
  /\ formType' = t
  /\ formAuth' = getDefaultAuthType(t)
  /\ formValue' = [formValue EXCEPT !["port"] =
                     IF HasDefaultPort(t) THEN "plain" ELSE "blank"]
  /\ UNCHANGED <<formMode, storedVars>>

ChooseAuth(a) ==
  /\ Open /\ a \in AuthOptions(formType)
  /\ formAuth' = a
  /\ UNCHANGED <<formMode, formType, formValue, storedVars>>

TypeInto(f, text) ==
  /\ Open /\ f \in Shown(formType, formAuth)
  /\ formValue' = [formValue EXCEPT ![f] = text]
  /\ UNCHANGED <<formMode, formType, formAuth, storedVars>>

\* PasswordEncryptionService.Encrypt leaves alone what is encrypted already.
Encrypt(text) == IF text = "plain" THEN "encrypted" ELSE text

CreateConnection(f) ==
  IF f \notin Kept THEN "blank"
  ELSE IF f \in Secrets THEN Encrypt(formValue[f]) ELSE formValue[f]

\* Mutant: the update takes secrets as the creation does.
UpdateConnectionAll(f) == CreateConnection(f)

\* The server's update of one field: a secret that is not given is kept.
UpdateConnection(f) ==
  IF f \in Secrets /\ formValue[f] = "blank" THEN connection[f]
  ELSE CreateConnection(f)

\* The server's validation of the request.
Valid == /\ formAuth \in KnownAuth
         /\ \A f \in {"host", "port"} \cap Fields : formValue[f] # "blank"

\* handleApplicationSubmit; a refusal leaves the form as it is.
Submit ==
  /\ Open /\ Valid
  /\ connection' = [f \in Fields |-> IF formMode = "new"
                                     THEN CreateConnection(f)
                                     ELSE UpdateConnection(f)]
  /\ storedType' = formType /\ storedAuth' = formAuth
  /\ formMode' = "saved"
  /\ UNCHANGED <<formType, formAuth, formValue>>

Next ==
  \/ OpenNew \/ OpenEdit \/ Close \/ Submit
  \/ \E t \in Types : ChooseType(t)
  \/ \E a \in AuthOptions(formType) : ChooseAuth(a)
  \/ \E f \in Fields : \E text \in {"blank", "plain"} : TypeInto(f, text)

Spec == Init /\ [][Next]_formVars
=============================================================================
