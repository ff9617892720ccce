----------------------------- MODULE TemplateIds -----------------------------
(* How the components that refer to a template name it: job requests, the
   template routes with the generations, and profiles. *)

CONSTANTS
    Templates,  \* ids of the report_templates rows
    NoTemplate  \* template_id NULL, in a request and in a row

ASSUME NoTemplateAssumption == NoTemplate \notin Templates
==============================================================================
