SPECIFICATION Spec
CONSTANT
    Tool = {"windows.click", "windows.click_label", "windows.scroll", "windows.type",
            "windows.clipboard", "windows.process", "windows.shell", "windows.filesystem",
            "workspace.write_text", "workspace.read_text"}
INVARIANTS HighRiskNeedsConsent AskedOnce ModesOrdered
