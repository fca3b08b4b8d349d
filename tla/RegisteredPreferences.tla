------------------------- MODULE RegisteredPreferences -------------------------
(***************************************************************************)
(* The settings that exist: the calls of register() in                     *)
(* registered_preferences.py, in their order, with what decides how a      *)
(* setting may be read and written.  Defaults, types, labels and help      *)
(* texts are left out.                                                     *)
(***************************************************************************)
EXTENDS Naturals, Sequences, FiniteSets

CONSTANTS
  WorkloadIdentity,   \* FEATURE_OIDC_WORKLOAD_IDENTITY_ENABLED
  AocInstance,        \* is_aoc_instance()
  Unchangeable        \* AOC_UNCHANGEABLE_PREFERENCES

(* register(): what is bound to the settings file is made read-only. *)
Register(p) == [p EXCEPT !.read_only = @ \/ p.settings_bound]

(* The preferences of one section; most of them are ordinary ones. *)
Section(section, names, encrypted, read_only, settings_bound) ==
  [n \in DOMAIN names |->
     Register([section |-> section, name |-> names[n], encrypted |-> names[n] \in encrypted,
               read_only |-> names[n] \in read_only,
               settings_bound |-> names[n] \in settings_bound])]
Ordinary(section, names) == Section(section, names, {}, {}, {})

TokenPreferences ==
  Section("proxy",
    <<"gateway_token_name", "gateway_access_token_expiration", "jwt_expiration_buffer_in_seconds",
      "gateway_basic_auth_enabled", "gateway_proxy_url", "gateway_proxy_url_ignore_cert",
      "jwt_private_key", "jwt_public_key">>,
    {"jwt_private_key"}, {"jwt_public_key"}, {})

TimeoutPreferences ==
  Ordinary("proxy",
    <<"status_endpoint_backend_timeout_seconds", "status_endpoint_backend_verify",
      "resource_client_request_timeout", "request_timeout", "idle_timeout", "trusted_header_timeout">>)

PasswordPreferences ==
  Ordinary("local_login",
    <<"password_min_length", "password_min_digits", "password_min_upper", "password_min_special",
      "allow_admins_to_set_insecure">>)

LoginPreferences ==
  Ordinary("social_auth", <<"SOCIAL_AUTH_USERNAME_IS_FULL_EMAIL">>) \o
  Ordinary("local_login", <<"LOGIN_REDIRECT_OVERRIDE", "custom_login_info", "custom_logo">>)

ConfigurationPreferences ==
  Section("configuration",
    <<"SESSION_COOKIE_AGE", "MAX_EXTRA_SESSIONS_PER_USER", "DEFAULT_PAGE_SIZE", "MAX_PAGE_SIZE",
      "CSRF_TRUSTED_ORIGINS", "AAP_DEPLOYMENT_TYPE", "MANAGE_ORGANIZATION_AUTH",
      "ORG_ADMINS_CAN_SEE_ALL_USERS">>,
    {}, {"AAP_DEPLOYMENT_TYPE"}, {"AAP_DEPLOYMENT_TYPE"})

AnalyticsPreferences ==
  Ordinary("oauth2_provider", <<"ALLOW_OAUTH2_FOR_EXTERNAL_USERS">>) \o
  Section("analytics",
    <<"INSIGHTS_TRACKING_STATE", "REDHAT_USERNAME", "REDHAT_PASSWORD", "SUBSCRIPTIONS_USERNAME",
      "SUBSCRIPTIONS_PASSWORD", "AUTOMATION_ANALYTICS_GATHER_INTERVAL">>,
    {"REDHAT_PASSWORD", "SUBSCRIPTIONS_PASSWORD"}, {}, {})

BoundPreferences ==
  Section("notification", <<"NOTIFICATION_RSS_FEED_URL", "NOTIFICATION_RSS_FEED_ENABLED">>,
    {}, {"NOTIFICATION_RSS_FEED_URL"}, {"NOTIFICATION_RSS_FEED_URL"}) \o
  Section("feature_flags", <<"RUNTIME_FEATURE_FLAGS">>,
    {}, {"RUNTIME_FEATURE_FLAGS"}, {"RUNTIME_FEATURE_FLAGS"})

WorkloadPreferences ==
  IF WorkloadIdentity THEN Ordinary("workload_identity", <<"jwt_default_ttl_seconds">>) ELSE <<>>

Registered ==
  TokenPreferences \o TimeoutPreferences \o PasswordPreferences \o LoginPreferences \o
  ConfigurationPreferences \o AnalyticsPreferences \o BoundPreferences \o WorkloadPreferences

-----------------------------------------------------------------------------
(* get_setting looks a setting up by its name alone. *)
Named(name) == {p \in {Registered[n] : n \in DOMAIN Registered} : p.name = name}

IsReadOnly(p) == p.read_only \/ (AocInstance /\ p.name \in Unchangeable)

(* get_setting finds one preference of every name; a secret is never       *)
(* read-only, so that the operator can replace it.                         *)
ASSUME RegistryAssumption ==
  /\ \A n \in DOMAIN Registered : Named(Registered[n].name) = {Registered[n]}
  /\ \A m, n \in DOMAIN Registered : m # n => Registered[m] # Registered[n]
  /\ \A n \in DOMAIN Registered : Registered[n].encrypted => ~Registered[n].read_only
=============================================================================
