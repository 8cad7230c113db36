--------------------------- MODULE ConnectionFields ---------------------------
(***************************************************************************)
(* What the form of an application and its connection offers: the ways to  *)
(* authenticate and the fields for a kind of data source; what the server  *)
(* keeps of the fields, the state of form and connection, and what must    *)
(* hold of it.  Of a text only this is kept: it is blank, plain or         *)
(* encrypted.                                                              *)
(***************************************************************************)
EXTENDS Naturals, FiniteSets

CONSTANTS Types,     \* the data sources users choose
          Typed      \* the fields users type into

Databases == {"MicrosoftSqlServer", "MySql", "PostgreSql", "MongoDb", "Redis",
              "Oracle", "MariaDb", "Sqlite", "Cassandra", "ElasticSearch"}
Apis      == {"RestApi", "GraphQL", "SoapApi", "ODataApi", "WebSocket"}
FileTypes == {"CsvFile", "JsonFile", "XmlFile", "ExcelFile", "ParquetFile",
              "YamlFile", "TextFile"}
Clouds    == {"AzureBlobStorage", "AmazonS3", "GoogleCloudStorage"}
Queues    == {"RabbitMQ", "ApacheKafka", "AzureServiceBus"}

DataSourceTypes == Databases \cup Apis \cup FileTypes \cup Clouds \cup Queues

\* AuthenticationTypeEnum: what the server can read.
KnownAuth ==
  {"UserPassword", "Kerberos", "AzureAdPassword", "AzureAdInteractive",
   "AzureAdIntegrated", "AzureAdDefault", "AzureAdMsi", "WindowsIntegrated",
   "ScramSha1", "ScramSha256", "AwsIam", "X509", "GssApi", "GssapiKerberos",
   "Plain", "PlainLdap", "NoAuth", "ApiKey", "BearerToken", "BasicAuth",
   "OAuth1", "OAuth2", "JwtToken", "Digest", "Custom", "FileSystem",
   "SharedAccessSignature", "AccessKey", "ServicePrincipal", "AwsAccessKey",
   "AwsSessionToken", "AzureStorageKey", "AzureSas"}

\* What every instance has to satisfy.
FormAssumption ==
  Types \subseteq DataSourceTypes /\ "MicrosoftSqlServer" \in Types

-----------------------------------------------------------------------------
\* What the form offers for a data source.

DatabaseAuth(t) ==
  CASE t = "MicrosoftSqlServer" ->
         {"UserPassword", "WindowsIntegrated", "Kerberos", "AzureAdPassword",
          "AzureAdInteractive", "AzureAdIntegrated", "AzureAdDefault",
          "AzureAdMsi"}
    [] t = "MongoDb" ->
         {"UserPassword", "ScramSha1", "ScramSha256", "AwsIam", "X509",
          "GssapiKerberos", "PlainLdap", "NoAuth"}
    [] t \in {"PostgreSql", "Oracle"} -> {"UserPassword", "WindowsIntegrated"}
    [] t = "ElasticSearch" -> {"UserPassword", "NoAuth", "ApiKey"}
    [] OTHER -> {"UserPassword", "NoAuth"}

ApiAuth(t) ==
  CASE t = "RestApi"   -> {"NoAuth", "ApiKey", "BearerToken", "BasicAuth",
                           "OAuth2", "JwtToken", "Custom"}
    [] t = "GraphQL"   -> {"NoAuth", "ApiKey", "BearerToken", "BasicAuth",
                           "OAuth2", "JwtToken"}
    [] t = "ODataApi"  -> {"NoAuth", "ApiKey", "BearerToken", "BasicAuth",
                           "OAuth2"}
    [] t = "WebSocket" -> {"NoAuth", "ApiKey", "BearerToken", "Custom"}
    [] OTHER           -> {"NoAuth", "BasicAuth", "Custom"}

StorageAuth(t) ==
  CASE t \in FileTypes          -> {"NoAuth", "FileSystem"}
    [] t = "AzureBlobStorage"   -> {"AzureAccessKey", "SharedAccessSignature",
                                    "ServicePrincipal", "AzureAdIntegrated"}
    [] t = "AmazonS3"           -> {"AwsIam", "AwsAccessKey"}
    [] t = "GoogleCloudStorage" -> {"ServicePrincipal", "GcpAccessKey"}
    [] OTHER                    -> {"UserPassword", "NoAuth",
                                    "ServicePrincipal"}

AuthOptions(t) == CASE t \in Databases -> DatabaseAuth(t)
                    [] t \in Apis      -> ApiAuth(t)
                    [] OTHER           -> StorageAuth(t)

\* Mutant: every store of objects takes an access key.
GetDefaultAuthTypeKeyed(t) ==
  CASE t \in Databases \cup Queues -> "UserPassword"
    [] t \in Clouds                -> "AwsAccessKey"
    [] OTHER                       -> "NoAuth"

getDefaultAuthType(t) ==
  CASE t \in Databases \cup Queues  -> "UserPassword"
    [] t = "AzureBlobStorage"       -> "AzureAccessKey"
    [] t = "AmazonS3"               -> "AwsIam"
    [] t = "GoogleCloudStorage"     -> "ServicePrincipal"
    [] OTHER                        -> "NoAuth"

\* getDefaultPort gives the others none.
HasDefaultPort(t) == t \notin FileTypes \cup Clouds \cup {"Sqlite"}

-----------------------------------------------------------------------------
\* The fields of the form, section by section.

UsernameField(t, a) ==
  IF \/ t \in Databases /\ a = "UserPassword"
     \/ t = "MicrosoftSqlServer" /\ a \in {"Kerberos", "AzureAdPassword",
                                           "AzureAdInteractive"}
     \/ t = "MongoDb" /\ a \in {"ScramSha1", "ScramSha256", "PlainLdap"}
     \/ t = "ElasticSearch" /\ a = "ApiKey"
  THEN {"username"} ELSE {}

PasswordField(t, a) ==
  IF \/ t \in Databases /\ a = "UserPassword"
     \/ t = "MicrosoftSqlServer" /\ a \in {"Kerberos", "AzureAdPassword"}
     \/ t = "MongoDb" /\ a \in {"ScramSha1", "ScramSha256", "PlainLdap"}
     \/ t = "ElasticSearch" /\ a = "ApiKey"
  THEN {"password"} ELSE {}

AwsKeyFields(a) ==
  IF a \in {"AwsAccessKey", "AwsSessionToken"}
  THEN {"awsAccessKeyId", "awsSecretAccessKey", "awsSessionToken"} ELSE {}

AwsIamFields(a) == IF a = "AwsIam" THEN {"awsRoleArn", "awsRegion"} ELSE {}

S3Fields(t) == IF t = "AmazonS3" THEN {"s3BucketName", "awsRegion"} ELSE {}

KerberosFields(a) ==
  IF a \in {"Kerberos", "GssapiKerberos"}
  THEN {"principal", "serviceName", "serviceRealm", "canonicalizeHostName"}
  ELSE {}

MongoFields(a) ==
  IF a \in {"ScramSha1", "ScramSha256"} THEN {"authenticationDatabase"} ELSE {}

CertificateFields(a) ==
  IF a = "X509" THEN {"certificateFilePath", "privateKeyFilePath",
                      "caCertificateFilePath"} ELSE {}

AzureStorageFields(t, a) ==
  CASE t = "AzureBlobStorage" /\ a = "AzureAccessKey" ->
         {"azureStorageAccountName", "azureStorageAccountKey"}
    [] t = "AzureBlobStorage" /\ a = "SharedAccessSignature" ->
         {"azureSasToken"}
    [] OTHER -> {}

AzurePrincipalFields(t, a) ==
  IF t = "AzureBlobStorage" /\ a = "ServicePrincipal"
  THEN {"azureTenantId", "azureClientId", "azureClientSecret",
        "azureStorageAccountName"} ELSE {}

GoogleFields(t, a) ==
  CASE t = "GoogleCloudStorage" /\ a = "ServicePrincipal" ->
         {"gcpServiceAccountJson"}
    [] t = "GoogleCloudStorage" /\ a = "GcpAccessKey" ->
         {"gcpAccessKeyId", "gcpSecretAccessKey"}
    [] OTHER -> {}

ApiFields(t, a) ==
  IF t \notin Apis THEN {}
  ELSE {"apiEndpoint", "headers", "requestBody"}
       \cup (IF t = "GraphQL" THEN {} ELSE {"httpMethod"})
       \cup (IF a = "ApiKey" THEN {"apiKey"} ELSE {})
       \cup (IF a \in {"BearerToken", "JwtToken"} THEN {"bearerToken"} ELSE {})

FileFields(t) ==
  IF t \notin FileTypes \cup Clouds THEN {}
  ELSE {"filePath"} \cup
       IF t \in {"CsvFile", "TextFile"} THEN {"delimiter", "encoding",
                                              "hasHeader"} ELSE {}

InstanceField(t) ==
  IF t \in {"MicrosoftSqlServer", "Oracle"} THEN {"instance"} ELSE {}

Shown(t, a) ==
  {"host", "port", "databaseName"}
    \cup UsernameField(t, a) \cup PasswordField(t, a)
    \cup AwsKeyFields(a) \cup AwsIamFields(a) \cup S3Fields(t)
    \cup KerberosFields(a) \cup MongoFields(a) \cup CertificateFields(a)
    \cup AzureStorageFields(t, a) \cup AzurePrincipalFields(t, a)
    \cup GoogleFields(t, a) \cup ApiFields(t, a) \cup FileFields(t)
    \cup InstanceField(t)

-----------------------------------------------------------------------------
\* What the server keeps of a connection.

Secrets == {"password", "awsAccessKeyId", "awsSecretAccessKey",
            "awsSessionToken"}
Kept == Secrets \cup {"instance", "host", "port", "databaseName", "username",
                      "authenticationDatabase", "principal", "serviceName",
                      "serviceRealm", "canonicalizeHostName"}
\* What it gives back; the key id as it is stored, encrypted.
Returned == {"host", "port", "databaseName", "username",
             "authenticationDatabase", "awsAccessKeyId", "principal",
             "serviceName", "serviceRealm", "canonicalizeHostName"}

Fields == Typed \cup {"port"}

VARIABLES
  formMode,       \* "closed", "new", "edit" or "saved"
  formType, formAuth,
  formValue,      \* the text of each field: blank, plain or encrypted
  connection,     \* the stored connection: the same of each of its fields
  storedType, storedAuth

storedVars == <<connection, storedType, storedAuth>>
formVars == <<formMode, formType, formAuth, formValue, storedVars>>

-----------------------------------------------------------------------------
\* A new application asks for an authentication its data source offers,
\* whatever was chosen before the data source was changed.
AuthIsOffered == formMode = "new" => formAuth \in AuthOptions(formType)

SecretsKept ==
  \A f \in Secrets \cap Fields :
    connection[f] # "blank" => connection'[f] = "encrypted"

\* No edit takes a stored secret away, which the form never has in the clear
\* to send back, or leaves it anything but encrypted once.
SecretsSurvive == [][SecretsKept]_formVars
=============================================================================
