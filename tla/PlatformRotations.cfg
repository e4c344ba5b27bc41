CONSTANTS
    Kinds = {"directory_token", "authentik_admin", "oidc_client_secret", "openbao_secret_id",
             "conjur_api_key", "worker_ssh_key", "bootstrap_ssh_key", "vault_password"}
    Hosts <- MCHosts
    Keep = 3
    MaxFaults = 3
    MaxRotations = 4
SPECIFICATION FairSpec
INVARIANTS
    TypeOK
    KeepsWorking
    OldStays
PROPERTY Recovers
CHECK_DEADLOCK FALSE
