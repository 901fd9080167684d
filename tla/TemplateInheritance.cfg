SPECIFICATION Spec
INVARIANT TemplatesCompose
CHECK_DEADLOCK FALSE
