----------------------------- MODULE RequestBody -----------------------------
(***************************************************************************)
(* The body of a chat request on its way from the client to a provider:    *)
(* the mapper reads it, capOutput limits a guest's output, Metering holds  *)
(* credit for what was read, and PrepareProxyBody edits it for each        *)
(* provider that is tried.                                                 *)
(*                                                                         *)
(* The output limit has two names.  Each function looks for it on its own, *)
(* in the body or in what the mapper read; the hold is right only if they  *)
(* find the same one.  They do not look alike: encoding/json fills the     *)
(* mapper's struct from a key in any case of letters, while the functions  *)
(* that edit the body look for the exact name.                             *)
(***************************************************************************)
EXTENDS Integers, Sequences

CONSTANTS
  Absent, Null,   \* a field that is not there, or is null
  Limits,         \* output limits a client may ask for
  Nulls,          \* the empty values a client may send: Absent, Null
  Spelled,        \* what it may send under a name in other letters
  MaxOutputs,     \* maximum outputs of models
  GuestLimit,     \* GUEST_MAX_OUTPUT_TOKENS
  Prompts,        \* prompts considered: a subset of Prompt
  ImageTokens, PromptOverhead

\* A prompt by its size: bytes of text (and JSON around it), image parts with
\* their bytes, and whether it has parts of another kind.
Prompt == [text : Nat, images : Nat, imageBytes : Nat, other : BOOLEAN]

ASSUME BodyAssumption ==
  /\ Limits \subseteq Int /\ MaxOutputs \subseteq Nat
  /\ GuestLimit \in Nat \ {0}
  /\ ImageTokens \in Nat /\ PromptOverhead \in Nat \ {0}
  /\ Prompts \subseteq Prompt
  /\ Absent \notin Int /\ Null \notin Int /\ Absent # Null
  /\ Absent \in Nulls /\ Nulls \subseteq {Absent, Null}
  /\ Spelled \subseteq Limits \cup {Absent, Null}

Values == Limits \cup Nulls
Providers == {"deepseek", "novita", "openai", "other"}

\* The fields the gateway reads or edits; the others pass as they are.  Each
\* limit may also, or only, stand under its name in other letters (MAX_TOKENS);
\* last is which of the two spellings comes last in the text.
Body == [max_tokens : Values, max_completion_tokens : Values,
         MAX_TOKENS : Spelled, MAX_COMPLETION_TOKENS : Spelled,
         last : {"exact", "other"}, include_usage : {Absent, "off", "on"}, prompt : Prompts]

NoLimit == Absent

VARIABLES
  guest, stream,
  max,          \* the model's maximum output, 0 for none
  providers,    \* the model's provider and its fallback, if any
  step,         \* read, cap, reserve, attempt, done, refused
  raw,          \* the body as the client sent it
  body,         \* the body as it is now
  limit,        \* GenerateRequest.MaxOutputTokens
  held,         \* what Metering was told: limit, and estimated input
  sent          \* the bodies the providers were sent

bodyVars == <<guest, stream, max, providers, step, raw, body, limit, held, sent>>
request == <<guest, stream, max, providers, raw>>

IsSet(value) == value \notin {Absent, Null}

-----------------------------------------------------------------------------
(* Reading and capping.                                                    *)

\* What a field of the mapper's struct is filled with: the last of the keys that
\* match its name but for the case of letters.
decoded(b, exact, other) ==
  IF other # Absent /\ (exact = Absent \/ b.last = "other") THEN other ELSE exact

MaxTokens(b) == decoded(b, b.max_tokens, b.MAX_TOKENS)
MaxCompletionTokens(b) ==
  decoded(b, b.max_completion_tokens, b.MAX_COMPLETION_TOKENS)

\* The mapper's view: a null field is an unset one.
MaxOutputTokens(b) ==
  IF IsSet(MaxTokens(b)) THEN MaxTokens(b)
  ELSE IF IsSet(MaxCompletionTokens(b)) THEN MaxCompletionTokens(b)
  ELSE NoLimit

\* ChatCompletionRequestToDomain: both limits at once are refused.
ReadRequest ==
  /\ step = "read"
  /\ \/ /\ IsSet(MaxTokens(raw)) /\ IsSet(MaxCompletionTokens(raw))
        /\ step' = "refused"
        /\ UNCHANGED limit
     \/ /\ ~(IsSet(MaxTokens(raw)) /\ IsSet(MaxCompletionTokens(raw)))
        /\ limit' = MaxOutputTokens(raw)
        /\ step' = IF guest THEN "cap" ELSE "reserve"
  /\ UNCHANGED <<request, body, held, sent>>

\* Mutant of WithinGuestLimit: zero and negative limits are small, too.
SmallForGuest == IsSet(limit) /\ limit <= GuestLimit

\* The guest's own limit is small enough.
WithinGuestLimit == IsSet(limit) /\ limit > 0 /\ limit <= GuestLimit

\* The limit goes into the field the client used: max_tokens if a key of exactly
\* that name is there at all, null included, otherwise the current name.
capped(b) ==
  IF b.max_tokens # Absent
  THEN [b EXCEPT !.max_tokens = GuestLimit]
  ELSE [b EXCEPT !.max_completion_tokens = GuestLimit]

capOutput ==
  /\ step = "cap"
  /\ \/ WithinGuestLimit /\ UNCHANGED <<body, limit>>
     \/ /\ ~WithinGuestLimit
        /\ body' = capped(body)
        /\ limit' = GuestLimit
  /\ step' = "reserve"
  /\ UNCHANGED <<request, held, sent>>

-----------------------------------------------------------------------------
(* The hold.                                                               *)

\* The body's bytes, with each image's bytes replaced by its tokens; no bound
\* for parts of an unknown kind.
estimateInputTokens(p) ==
  IF p.other THEN NoLimit
  ELSE p.text + p.imageBytes + PromptOverhead
         + (p.images * ImageTokens - p.imageBytes)

Reserve ==
  /\ step = "reserve"
  /\ held' = [output |-> limit, input |-> estimateInputTokens(body.prompt)]
  /\ step' = "attempt"
  /\ UNCHANGED <<request, body, limit, sent>>

-----------------------------------------------------------------------------
(* PrepareProxyBody.                                                       *)

useMaxTokens(provider) == provider = "deepseek"

\* tokenLimit: the exact names, the current one first.
tokenLimitField(b) ==
  IF IsSet(b.max_completion_tokens) THEN "max_completion_tokens"
  ELSE IF IsSet(b.max_tokens) THEN "max_tokens"
  ELSE "none"

\* Mutant of targetField: the client's field is kept for every provider.
targetFieldAsSent(field, provider) == field

targetField(field, provider) ==
  IF useMaxTokens(provider) THEN "max_tokens" ELSE field

\* A model without a maximum clamps nothing.
Clamp(n) == IF max > 0 /\ n > max THEN max ELSE n

\* The limit, clamped and under the provider's name for it, and no other.
Limited(b, provider) ==
  LET field == tokenLimitField(b)
      target == targetField(field, provider)
      none == [b EXCEPT !.max_tokens = Absent, !.max_completion_tokens = Absent]
  IN IF field = "none" THEN b ELSE [none EXCEPT ![target] = Clamp(b[field])]

\* A stream always reports usage; stream_options is only valid on streams.
Streamed(b) == [b EXCEPT !.include_usage = IF stream THEN "on" ELSE Absent]

PrepareProxyBody(b, provider) == Limited(Streamed(b), provider)

\* The primary provider is tried, and the fallback after it failed.
Attempt ==
  /\ step = "attempt" /\ Len(sent) < Len(providers)
  /\ sent' = Append(sent, PrepareProxyBody(body, providers[Len(sent) + 1]))
  /\ step' \in {"done"} \cup (IF Len(sent') < Len(providers) THEN {"attempt"} ELSE {})
  /\ UNCHANGED <<request, body, limit, held>>

-----------------------------------------------------------------------------
BodyInit ==
  /\ guest \in BOOLEAN /\ stream \in BOOLEAN
  /\ max \in MaxOutputs
  /\ providers \in {<<p>> : p \in Providers}
                     \cup {<<p, q>> : p \in Providers, q \in Providers}
  /\ raw \in Body
  /\ body = raw
  /\ step = "read" /\ limit = NoLimit
  /\ held = [output |-> NoLimit, input |-> NoLimit]
  /\ sent = <<>>

BodyNext == ReadRequest \/ capOutput \/ Reserve \/ Attempt

BodySpec == BodyInit /\ [][BodyNext]_bodyVars

-----------------------------------------------------------------------------
(* Properties.                                                             *)

\* What limits the output of a provider that gets this body: DeepSeek ignores
\* max_completion_tokens, the others enforce either name.
Enforced(b, provider) ==
  IF provider # "deepseek" /\ IsSet(b.max_completion_tokens)
  THEN b.max_completion_tokens ELSE b.max_tokens

\* The mapper reads the limits that stand under the exact names.
AsSpelled(b) ==
  MaxTokens(b) = b.max_tokens /\ MaxCompletionTokens(b) = b.max_completion_tokens

\* A null max_tokens beside a limit under the other name.
NullBeside(b) == b.max_tokens = Null /\ IsSet(b.max_completion_tokens)

\* The requests whose limit all the functions find in the same place.
FoundAlike == AsSpelled(raw) /\ ~(guest /\ NullBeside(raw))

\* The credit held for an output limit is enough: whichever provider runs the
\* request, the first or its fallback, is told, under a name it enforces, a limit
\* no larger than the one Metering was told.  This is so of every request whose
\* limit is spelled as documented and, for a guest, has no null max_tokens beside
\* it; CapIsEnforced shows that both are needed.
HeldIsEnforced ==
  FoundAlike =>
    \A i \in DOMAIN sent :
      held.output # NoLimit =>
        /\ IsSet(Enforced(sent[i], providers[i]))
        /\ Enforced(sent[i], providers[i]) <= held.output

\* Of the same requests: a guest's that goes out always carries a positive limit,
\* at most the guest limit, whatever the client asked for or left out.
GuestsAreLimited ==
  guest /\ FoundAlike =>
    \A i \in DOMAIN sent :
      /\ IsSet(Enforced(sent[i], providers[i]))
      /\ Enforced(sent[i], providers[i]) \in 1 .. GuestLimit

\* capOutput's comment, of every guest's request: "Metering holds credit for that
\* limit and the provider enforces it."  It does not hold: of a guest's
\* max_tokens: null beside max_completion_tokens over the limit, capOutput writes
\* the former and tokenLimit finds the latter; and a limit spelled MAX_TOKENS is
\* read and held for, but no provider is told of it.
CapIsEnforced ==
  guest =>
    \A i \in DOMAIN sent :
      /\ IsSet(Enforced(sent[i], providers[i]))
      /\ Enforced(sent[i], providers[i]) <= held.output

\* "the output-token limit: clamped to the model's maximum, and sent as
\* max_tokens to the providers that only document that name (Novita, DeepSeek)"
\* (PrepareProxyBody's comment).
LimitIsNamed ==
  \A i \in DOMAIN sent :
    providers[i] \in {"novita", "deepseek"} =>
      ~IsSet(sent[i].max_completion_tokens)

=============================================================================
