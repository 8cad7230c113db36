------------------------ MODULE ConnectionFormProofs ------------------------
(***************************************************************************)
(* For every choice of data sources and fields: the form of a new          *)
(* application asks for an authentication its data source offers, and no   *)
(* edit takes a stored secret away.                                        *)
(***************************************************************************)
EXTENDS ConnectionForm, TLAPS

\* getDefaultAuthType is written apart from the options of the form, and
\* agrees with them for every data source.
LEMMA DefaultIsOffered ==
  ASSUME NEW t \in DataSourceTypes
  PROVE  getDefaultAuthType(t) \in AuthOptions(t)
<1>1. CASE t \in Databases
  <2>1. getDefaultAuthType(t) = "UserPassword"
    BY <1>1, t \notin Clouds DEF getDefaultAuthType, Databases, Clouds
  <2>2. "UserPassword" \in DatabaseAuth(t)
    <3>1. CASE t = "MicrosoftSqlServer"
      BY <3>1 DEF DatabaseAuth
    <3>2. CASE t = "MongoDb"
      BY <3>2 DEF DatabaseAuth
    <3>3. CASE t \in {"PostgreSql", "Oracle"}
      BY <3>3 DEF DatabaseAuth
    <3>4. CASE t = "ElasticSearch"
      BY <3>4 DEF DatabaseAuth
    <3>5. CASE t \notin {"MicrosoftSqlServer", "MongoDb", "PostgreSql", "Oracle",
                        "ElasticSearch"}
      BY <3>5 DEF DatabaseAuth
    <3>6. QED
      BY <3>1, <3>2, <3>3, <3>4, <3>5
  <2>3. AuthOptions(t) = DatabaseAuth(t)
    <3>1. t \notin Apis
      BY <1>1 DEF Databases, Apis
    <3>2. QED
      BY <1>1, <3>1 DEF AuthOptions
  <2>4. QED
    BY <2>1, <2>2, <2>3
<1>2. CASE t \in Apis
  <2>1. getDefaultAuthType(t) = "NoAuth"
    BY <1>2 DEF getDefaultAuthType, Apis, Databases, Queues
  <2>2. "NoAuth" \in ApiAuth(t)
    BY <1>2 DEF ApiAuth
  <2>3. AuthOptions(t) = ApiAuth(t)
    BY <1>2 DEF AuthOptions, Apis, Databases
  <2>4. QED
    BY <2>1, <2>2, <2>3
<1>3. CASE t \in FileTypes \cup Clouds \cup Queues
  <2>1. t \notin Databases /\ t \notin Apis
    BY <1>3 DEF FileTypes, Clouds, Queues, Databases, Apis
  <2>2. AuthOptions(t) = StorageAuth(t)
    BY <2>1 DEF AuthOptions
  <2>3. CASE t \in FileTypes
    BY <2>1, <2>2, <2>3
       DEF getDefaultAuthType, StorageAuth, FileTypes, Queues
  <2>4. CASE t \in Clouds
    BY <2>1, <2>2, <2>4
       DEF getDefaultAuthType, StorageAuth, FileTypes, Clouds, Queues
  <2>5. CASE t \in Queues
    BY <2>1, <2>2, <2>5
       DEF getDefaultAuthType, StorageAuth, FileTypes, Queues
  <2>6. QED
    BY <1>3, <2>3, <2>4, <2>5
<1>4. QED
  BY <1>1, <1>2, <1>3 DEF DataSourceTypes

\* The authentication of a new application is one its data source offers,
\* in whatever order the two are chosen.
THEOREM AuthAlwaysOffered ==
  ASSUME FormAssumption PROVE Spec => []AuthIsOffered
<1>1. "UserPassword" \in AuthOptions("MicrosoftSqlServer")
  <2>1. /\ "MicrosoftSqlServer" \in Databases
        /\ "MicrosoftSqlServer" \notin Apis
    BY DEF Databases, Apis
  <2>2. AuthOptions("MicrosoftSqlServer") = DatabaseAuth("MicrosoftSqlServer")
    BY <2>1 DEF AuthOptions
  <2>3. QED
    BY <2>2 DEF DatabaseAuth
<1>2. Init => AuthIsOffered
  BY DEF Init, AuthIsOffered
<1>3. AuthIsOffered /\ [Next]_formVars => AuthIsOffered'
  <2> SUFFICES ASSUME AuthIsOffered, [Next]_formVars, formMode' = "new"
               PROVE  formAuth' \in AuthOptions(formType')
    BY DEF AuthIsOffered
  <2>1. CASE OpenNew
    BY <1>1, <2>1 DEF OpenNew, ResetForm
  <2>2. CASE OpenEdit \/ Close \/ Submit
    BY <2>2 DEF OpenEdit, Close, Submit
  <2>3. ASSUME NEW t \in Types, ChooseType(t)
        PROVE  formAuth' \in AuthOptions(formType')
    BY <2>3, DefaultIsOffered DEF ChooseType, FormAssumption
  <2>4. ASSUME NEW a \in AuthOptions(formType), ChooseAuth(a)
        PROVE  formAuth' \in AuthOptions(formType')
    BY <2>4 DEF ChooseAuth
  <2>5. ASSUME NEW f \in Fields, NEW text \in {"blank", "plain"},
               TypeInto(f, text)
        PROVE  formAuth' \in AuthOptions(formType')
    BY <2>5 DEF TypeInto, AuthIsOffered
  <2>6. CASE UNCHANGED formVars
    BY <2>6 DEF formVars, AuthIsOffered
  <2>7. QED
    BY <2>1, <2>2, <2>3, <2>4, <2>5, <2>6 DEF Next
<1>4. QED
  BY <1>2, <1>3, PTL DEF Spec

-----------------------------------------------------------------------------
\* Secrets.

Texts == {"blank", "plain", "encrypted"}

\* Every text and the data source are known, nothing is stored before the
\* form of a new application was saved, and no secret is stored in the clear.
FormTyped ==
  /\ formValue \in [Fields -> Texts]
  /\ connection \in [Fields -> Texts]
  /\ formType \in DataSourceTypes
  /\ storedType = "none" => connection = NoConnection
  /\ formMode = "new" => storedType = "none"
  /\ \A f \in Secrets \cap Fields : connection[f] # "plain"

LEMMA NoneIsNoType == "none" \notin DataSourceTypes
BY DEF DataSourceTypes, Databases, Apis, FileTypes, Clouds, Queues

\* What the server keeps of a field is a text, of a secret never in the
\* clear, and it keeps a secret there was.
LEMMA UpdateTyped ==
  ASSUME FormTyped, NEW f \in Fields
  PROVE  /\ UpdateConnection(f) \in Texts
         /\ CreateConnection(f) \in Texts
         /\ f \in Secrets => /\ CreateConnection(f) # "plain"
                             /\ UpdateConnection(f) # "plain"
         /\ f \in Secrets /\ connection[f] # "blank" =>
              UpdateConnection(f) = "encrypted"
<1>1. formValue[f] \in Texts /\ connection[f] \in Texts
  BY DEF FormTyped
<1>2. f \in Secrets => f \in Kept
  BY DEF Kept
<1>3. Encrypt(formValue[f]) \in Texts \ {"plain"}
  BY <1>1 DEF Encrypt, Texts
<1>4. formValue[f] # "blank" => Encrypt(formValue[f]) = "encrypted"
  BY <1>1 DEF Encrypt, Texts
<1>5. /\ CreateConnection(f) \in Texts
      /\ f \in Secrets => CreateConnection(f) = Encrypt(formValue[f])
  BY <1>1, <1>2, <1>3 DEF CreateConnection, Texts
<1>6. CASE f \in Secrets /\ formValue[f] = "blank"
  <2>1. UpdateConnection(f) = connection[f]
    BY <1>6 DEF UpdateConnection
  <2>2. connection[f] # "plain"
    BY <1>6 DEF FormTyped
  <2>3. QED
    BY <1>1, <1>3, <1>5, <2>1, <2>2 DEF Texts
<1>7. CASE ~(f \in Secrets /\ formValue[f] = "blank")
  <2>1. UpdateConnection(f) = CreateConnection(f)
    BY <1>7 DEF UpdateConnection
  <2>2. QED
    BY <1>3, <1>4, <1>5, <1>7, <2>1
<1>8. QED
  BY <1>6, <1>7

\* No edit, with whatever left blank, takes a stored secret away or leaves it
\* in the clear.
THEOREM SecretsAlwaysSurvive ==
  ASSUME FormAssumption PROVE Spec => SecretsSurvive
<1>1. Init => FormTyped
  BY DEF Init, FormTyped, AllBlank, NoConnection, Fields, DataSourceTypes,
         Databases, Texts
<1>2. FormTyped /\ [Next]_formVars => FormTyped'
  <2> SUFFICES ASSUME FormTyped, [Next]_formVars
               PROVE  FormTyped'
    OBVIOUS
  <2>0. "MicrosoftSqlServer" \in DataSourceTypes
    BY DEF DataSourceTypes, Databases
  <2>1. CASE OpenNew
    BY <2>0, <2>1 DEF OpenNew, ResetForm, FormTyped, AllBlank, Texts, storedVars
  <2>2. CASE OpenEdit
    BY <2>0, <2>2 DEF OpenEdit, FormTyped, Texts, storedVars,
                      getDataSourceTypeName
  <2>3. CASE Close
    BY <2>0, <2>3 DEF Close, ResetForm, FormTyped, AllBlank, Texts, storedVars
  <2>4. ASSUME NEW t \in Types, ChooseType(t)
        PROVE  FormTyped'
    BY <2>4 DEF ChooseType, FormTyped, Texts, storedVars, FormAssumption
  <2>5. ASSUME NEW a \in AuthOptions(formType), ChooseAuth(a)
        PROVE  FormTyped'
    BY <2>5 DEF ChooseAuth, FormTyped, storedVars
  <2>6. ASSUME NEW f \in Fields, NEW text \in {"blank", "plain"},
               TypeInto(f, text)
        PROVE  FormTyped'
    BY <2>6 DEF TypeInto, FormTyped, Texts, storedVars
  <2>7. CASE Submit
    <3>1. /\ formMode' = "saved" /\ storedType' # "none"
          /\ UNCHANGED <<formValue, formType>>
      BY <2>7, NoneIsNoType DEF Submit, FormTyped
    <3>2. connection' \in [Fields -> Texts]
      BY <2>7, UpdateTyped DEF Submit
    <3>3. \A f \in Secrets \cap Fields : connection'[f] # "plain"
      BY <2>7, UpdateTyped DEF Submit
    <3>4. QED
      BY <3>1, <3>2, <3>3 DEF FormTyped
  <2>8. CASE UNCHANGED formVars
    BY <2>8 DEF formVars, storedVars, FormTyped
  <2>9. QED
    BY <2>1, <2>2, <2>3, <2>4, <2>5, <2>6, <2>7, <2>8 DEF Next
<1>3. FormTyped /\ [Next]_formVars => [SecretsKept]_formVars
  <2> SUFFICES ASSUME FormTyped, Next, NEW f \in Secrets \cap Fields,
                      connection[f] # "blank"
               PROVE  connection'[f] = "encrypted"
    BY DEF SecretsKept
  <2>1. CASE Submit
    <3>1. formMode # "new"
      BY DEF FormTyped, NoConnection, AllBlank
    <3>2. connection'[f] = UpdateConnection(f)
      BY <2>1, <3>1 DEF Submit
    <3>3. QED
      BY <3>2, UpdateTyped
  <2>2. CASE ~Submit
    <3>1. connection' = connection
      BY <2>2 DEF Next, OpenNew, OpenEdit, Close, ChooseType, ChooseAuth,
                  TypeInto, storedVars
    <3>2. connection[f] = "encrypted"
      BY DEF FormTyped, Texts
    <3>3. QED
      BY <3>1, <3>2
  <2>3. QED
    BY <2>1, <2>2
<1>4. QED
  BY <1>1, <1>2, <1>3, PTL DEF Spec, SecretsSurvive
=============================================================================
